---- MODULE Spec2Model ----
(***************************************************************************)
(* Retrieval-and-ranking pipeline of the legal brief analyser:             *)
(*   PDFProcessor  (app/services/pdf_processor.py)   page text -> chunks    *)
(*   VectorStore   (app/services/vector_store.py)    index + chunk list     *)
(*   PostProcessor (app/services/post_processor.py)  reconcile and rank     *)
(* Strings are sequences of one-character strings.  Scores are exact       *)
(* rationals [n, d] in lowest terms.  An Optional value is <<>> (None) or   *)
(* <<v>>.                                                                   *)
(***************************************************************************)
EXTENDS Integers, Sequences, FiniteSets, TLC

\* ------------------------------------------------------------------- state
\* top_k, rank_chunks, extracted_points: the PostProcessor field and the two
\* arguments of process_and_rank (the point objects are mutated by the call);
\* final_points: the local list before the sort; ranked: the returned list;
\* orig_points, pre_points, first_ranked, calls: the points as first given,
\* the points at entry of the last call, the first call's return value and
\* the number of calls made
VARIABLES top_k, rank_chunks, extracted_points, final_points, ranked,
          orig_points, pre_points, first_ranked, calls

rankVars == <<top_k, rank_chunks, extracted_points, final_points, ranked,
              orig_points, pre_points, first_ranked, calls>>

\* pages: the text pdfplumber extracts from each page; chunk_size,
\* chunk_overlap: the PDFProcessor fields; caller: who runs the splitter
\* (process_pdf, or a direct call of _split_text_with_page on one text);
\* pc, page_num, doc_chunks: position and locals of process_pdf;
\* text, start, chunk_index, page_chunks: argument and locals of
\* _split_text_with_page; windows: one entry per loop iteration of the
\* current split, [start, end, chunk] with chunk the 1-based position in
\* page_chunks of the chunk made from the window, 0 when it was dropped
VARIABLES pages, chunk_size, chunk_overlap, caller, pc, page_num, doc_chunks,
          text, start, chunk_index, page_chunks, windows

chunkVars == <<pages, chunk_size, chunk_overlap, caller, pc, page_num, doc_chunks,
               text, start, chunk_index, page_chunks, windows>>

\* vs_index, vs_chunks, vs_doc_id: the VectorStore fields index, chunks and
\* doc_id (the index is None or the
\* faiss index: its construction parameters and its vectors in insertion
\* order); last_call: the last method call, its arguments and outcome, and
\* the fields as they were when it was made
VARIABLES vs_index, vs_chunks, vs_doc_id, last_call

storeVars == <<vs_index, vs_chunks, vs_doc_id, last_call>>

\* an_state: where one LLMAnalyzer object is ("new" before __init__, "ready"
\* after it, "called" after analyze_chunks); an_llm: its field llm (None
\* without a client); an_call: the arguments of the analyze_chunks call,
\* what llm.invoke did and the LLMAnalysisOutput returned
VARIABLES an_state, an_llm, an_call

extractVars == <<an_state, an_llm, an_call>>

\* pipelines: for each AnalysisPipeline object None before it is constructed,
\* else its analyzer client, the number of analyze_document calls started
\* on it and the document id and end of each finished call; stores: the
\* fields of each VectorStore object; run: the current analyze_document
\* call of each pipeline, its position, locals, the steps it has executed
\* and the result it returned
VARIABLES pipelines, stores, run

pipeVars == <<pipelines, stores, run>>

\* ------------------------------------------------------------------ bounds
MaxPoints == 2
MaxChunks == 2
MaxPage == 2
MaxCalls == 2
MaxTopK == MaxPoints + 1
MaxPages == 2
MaxDocLen == 3
MaxChunkSize == 3
MaxIters == MaxDocLen + 1

MaxStoreChunks == 2
MaxAdd == 2
MaxArgs == 2

MaxRuns == 2

\* defaults of PDFProcessor.__init__ (CHUNK_SIZE, CHUNK_OVERLAP)
DefaultChunkSize == 1500
DefaultChunkOverlap == 200

\* defaults of VectorStore.__init__ (FAISS_M, FAISS_EF_CONSTRUCTION)
FaissM == 32
FaissEfConstruction == 64

\* default ef_search of VectorStore.search (FAISS_EF_SEARCH)
FaissEfSearch == 64

\* the distance that replaces a NaN or infinite distance in search
SentinelDistance == 1000000

\* --------------------------------------------------------------- rationals
Min(a, b) == IF a < b THEN a ELSE b

RECURSIVE Gcd(_, _)
Gcd(a, b) == IF b = 0 THEN a ELSE Gcd(b, a % b)

Rat(n, d) == LET g == Gcd(n, d) IN [n |-> n \div g, d |-> d \div g]

RatAdd(x, y) == Rat(x.n * y.d + y.n * x.d, x.d * y.d)

RatMul(x, y) == Rat(x.n * y.n, x.d * y.d)

RatLess(x, y) == x.n * y.d < y.n * x.d

RatMax(x, y) == IF RatLess(x, y) THEN y ELSE x

Zero == Rat(0, 1)

One == Rat(1, 1)

Half == Rat(1, 2)

\* ----------------------------------------------------------------- strings
None == <<>>

Some(v) == <<v>>

Str1(a) == <<a>>

Str3(a, b, c) == <<a, b, c>>

IsSpace(c) == c = " "

Ord(c) == CASE c = " " -> 32 [] c = "A" -> 65 [] c = "B" -> 66
            [] c = "a" -> 97 [] c = "b" -> 98 [] c = "c" -> 99

LowerChar(c) == CASE c = "A" -> "a" [] c = "B" -> "b" [] OTHER -> c

Lower(s) == [i \in 1..Len(s) |-> LowerChar(s[i])]

RECURSIVE LStrip(_)
LStrip(s) == IF s # <<>> /\ IsSpace(Head(s)) THEN LStrip(Tail(s)) ELSE s

RECURSIVE RStrip(_)
RStrip(s) == IF s # <<>> /\ IsSpace(s[Len(s)]) THEN RStrip(SubSeq(s, 1, Len(s) - 1)) ELSE s

Strip(s) == RStrip(LStrip(s))

\* str.split(): the maximal runs of non-whitespace characters, in order
RECURSIVE SplitFrom(_, _)
SplitFrom(s, cur) ==
    IF s = <<>> THEN (IF cur = <<>> THEN <<>> ELSE <<cur>>)
    ELSE IF IsSpace(Head(s))
         THEN (IF cur = <<>> THEN <<>> ELSE <<cur>>) \o SplitFrom(Tail(s), <<>>)
         ELSE SplitFrom(Tail(s), Append(cur, Head(s)))

Split(s) == SplitFrom(s, <<>>)

TokenSet(s) == {Split(s)[i] : i \in 1..Len(Split(s))}

\* lexicographic order on strings by code point, as sorted() compares them
RECURSIVE StrLess(_, _)
StrLess(s, t) ==
    IF t = <<>> THEN FALSE
    ELSE IF s = <<>> THEN TRUE
    ELSE IF Ord(Head(s)) # Ord(Head(t)) THEN Ord(Head(s)) < Ord(Head(t))
    ELSE StrLess(Tail(s), Tail(t))

\* " ".join(sorted(S)) for a set of tokens S
RECURSIVE JoinSorted(_)
JoinSorted(S) ==
    IF S = {} THEN <<>>
    ELSE LET m == CHOOSE x \in S : \A y \in S \ {x} : StrLess(x, y)
         IN IF S = {m} THEN m ELSE m \o <<" ">> \o JoinSorted(S \ {m})

\* longest common subsequence length
RECURSIVE Lcs(_, _)
Lcs(s, t) ==
    IF s = <<>> \/ t = <<>> THEN 0
    ELSE IF Head(s) = Head(t) THEN 1 + Lcs(Tail(s), Tail(t))
    ELSE LET x == Lcs(Tail(s), t)
             y == Lcs(s, Tail(t))
         IN IF x > y THEN x ELSE y

IndelDistance(s, t) == Len(s) + Len(t) - 2 * Lcs(s, t)

\* rapidfuzz _norm_distance / 100: 1 - dist/lensum
NormSim(dist, lensum) == IF lensum = 0 THEN One ELSE Rat(lensum - dist, lensum)

\* fuzz.token_set_ratio(s1, s2) / 100.0
TokenSetRatio(s1, s2) ==
    LET ta == TokenSet(s1)
        tb == TokenSet(s2)
        sect == ta \cap tb
        dab == ta \ tb
        dba == tb \ ta
        abj == JoinSorted(dab)
        baj == JoinSorted(dba)
        sectLen == Len(JoinSorted(sect))
        sep == IF sectLen # 0 THEN 1 ELSE 0
        sectAb == sectLen + sep + Len(abj)
        sectBa == sectLen + sep + Len(baj)
        result == NormSim(IndelDistance(abj, baj), sectAb + sectBa)
    IN IF ta = {} \/ tb = {} THEN Zero
       ELSE IF sect # {} /\ (dab = {} \/ dba = {}) THEN One
       ELSE IF sectLen = 0 THEN result
       ELSE RatMax(result,
                   RatMax(NormSim(sep + Len(abj), sectLen + sectAb),
                          NormSim(sep + Len(baj), sectLen + sectBa)))

\* ------------------------------------------------------------ chunk records
DocId == "doc"

IsBlank(t) == Strip(t) = <<>>

\* variant: the window text is stored untrimmed
ChunkTextRaw(window) == window

\* 'text': chunk_text.strip()
ChunkTextOf(window) == Strip(window)

MakeChunk(chunk_text, doc_id, page_number, total_pages, idx) ==
    [text |-> ChunkTextOf(chunk_text),
     chunk_id |-> <<doc_id, page_number, idx>>,
     page_number |-> page_number,
     document_id |-> doc_id,
     total_pages |-> total_pages,
     chunk_index |-> idx]

\* ------------------------------------------------------------ PostProcessor
\* Python truthiness of a float, an Optional[float], an Optional[str] and an
\* Optional[int]: None, 0.0, "" and 0 are falsy
TruthyNum(x) == x.n # 0

TruthyOptNum(o) == o # None /\ TruthyNum(o[1])

TruthyOptStr(o) == o # None /\ Len(o[1]) > 0

TruthyOptInt(o) == o # None /\ o[1] # 0

\* variant: best_match is assigned for every candidate, outside the comparison
RECURSIVE BestOverLastChunk(_, _, _, _)
BestOverLastChunk(quote, cands, best_match, best_score) ==
    IF cands = <<>> THEN [chunk |-> best_match, score |-> best_score]
    ELSE LET score == TokenSetRatio(Lower(quote), Lower(Head(cands).text))
         IN BestOverLastChunk(quote, Tail(cands), Some(Head(cands)),
                              IF RatLess(best_score, score) THEN score ELSE best_score)

\* the for loop of _find_best_matching_chunk over the candidate list
RECURSIVE BestOver(_, _, _, _)
BestOver(quote, cands, best_match, best_score) ==
    IF cands = <<>> THEN [chunk |-> best_match, score |-> best_score]
    ELSE LET score == TokenSetRatio(Lower(quote), Lower(Head(cands).text))
         IN IF RatLess(best_score, score)
            THEN BestOver(quote, Tail(cands), Some(Head(cands)), score)
            ELSE BestOver(quote, Tail(cands), best_match, best_score)

OnPage(chunks, page) == SelectSeq(chunks, LAMBDA c : c.page_number = page)

\* variant: no fall back to the full chunk list when the page has no chunk
CandidateChunksNoFallback(chunks, expected_page) ==
    IF TruthyOptInt(expected_page) THEN OnPage(chunks, expected_page[1]) ELSE chunks

CandidateChunks(chunks, expected_page) ==
    IF TruthyOptInt(expected_page) /\ OnPage(chunks, expected_page[1]) # <<>>
    THEN OnPage(chunks, expected_page[1])
    ELSE chunks

FindBestMatchingChunk(quote, chunks, expected_page) ==
    IF quote = <<>> \/ chunks = <<>>
    THEN [chunk |-> None, score |-> Zero]
    ELSE BestOver(quote, CandidateChunks(chunks, expected_page), None, Zero)

RetrievalOf(point) ==
    IF TruthyOptNum(point.retrieval_score) THEN point.retrieval_score[1] ELSE Half

ImportanceOf(point) ==
    IF TruthyNum(point.importance_score) THEN point.importance_score ELSE Half

QuoteOf(point) ==
    IF TruthyOptStr(point.supporting_quote) THEN point.supporting_quote[1] ELSE point.summary

CombinedScore(importance_score, retrieval_score, match_confidence) ==
    RatAdd(RatMul(Rat(1, 2), importance_score),
           RatAdd(RatMul(Rat(3, 10), retrieval_score),
                  RatMul(Rat(1, 5), match_confidence)))

\* page_start of the point object after the loop body has run on it
NewPageStart(point, chunks) ==
    LET m == FindBestMatchingChunk(QuoteOf(point), chunks, point.page_start)
    IN IF m.chunk # None THEN Some(m.chunk[1].page_number) ELSE point.page_start

\* one iteration of the loop over extracted_points: the FinalKeyPoint built
\* from the point at position i (match_confidence and input_pos are kept
\* for the properties; they are the local of line 24 and the list position)
MakeFinalPoint(point, chunks, i) ==
    LET m == FindBestMatchingChunk(QuoteOf(point), chunks, point.page_start)
    IN [summary |-> point.summary,
        importance_score |-> ImportanceOf(point),
        supporting_quote |-> QuoteOf(point),
        page_start |-> NewPageStart(point, chunks),
        retrieval_score |-> RetrievalOf(point),
        combined_score |-> CombinedScore(ImportanceOf(point), RetrievalOf(point), m.score),
        final_rank |-> 1,
        match_confidence |-> m.score,
        input_pos |-> i]

\* variant: an equal-score point is placed before the ones already sorted
RECURSIVE InsertDescUnstable(_, _)
InsertDescUnstable(sorted, p) ==
    IF sorted = <<>> THEN <<p>>
    ELSE IF ~RatLess(p.combined_score, Head(sorted).combined_score)
         THEN <<p>> \o sorted
         ELSE <<Head(sorted)>> \o InsertDescUnstable(Tail(sorted), p)

\* list.sort(key=combined_score, reverse=True): stable, descending
RECURSIVE InsertDesc(_, _)
InsertDesc(sorted, p) ==
    IF sorted = <<>> THEN <<p>>
    ELSE IF RatLess(Head(sorted).combined_score, p.combined_score)
         THEN <<p>> \o sorted
         ELSE <<Head(sorted)>> \o InsertDesc(Tail(sorted), p)

RECURSIVE SortDesc(_)
SortDesc(ps) ==
    IF ps = <<>> THEN <<>>
    ELSE InsertDesc(SortDesc(SubSeq(ps, 1, Len(ps) - 1)), ps[Len(ps)])

\* seq[:k]
SliceTo(seq, k) ==
    LET n == Len(seq)
        e == IF k >= 0 THEN (IF k < n THEN k ELSE n)
                       ELSE (IF n + k > 0 THEN n + k ELSE 0)
    IN SubSeq(seq, 1, e)

\* variant: enumerate(final_points) without the start value 1
AssignRanksFromZero(ps) == [i \in 1..Len(ps) |-> [ps[i] EXCEPT !.final_rank = i - 1]]

AssignRanks(ps) == [i \in 1..Len(ps) |-> [ps[i] EXCEPT !.final_rank = i]]

AllFinalPoints(points, chunks) ==
    [i \in 1..Len(points) |-> MakeFinalPoint(points[i], chunks, i)]

RankedList(points, chunks, k) ==
    AssignRanks(SliceTo(SortDesc(AllFinalPoints(points, chunks)), k))

MutatedPoints(points, chunks) ==
    [i \in 1..Len(points) |-> [points[i] EXCEPT !.page_start = NewPageStart(points[i], chunks)]]

ProcessAndRank ==
    /\ calls < MaxCalls
    /\ pre_points' = extracted_points
    /\ final_points' = AllFinalPoints(extracted_points, rank_chunks)
    /\ ranked' = RankedList(extracted_points, rank_chunks, top_k)
    /\ extracted_points' = MutatedPoints(extracted_points, rank_chunks)
    /\ first_ranked' = IF calls = 0 THEN RankedList(extracted_points, rank_chunks, top_k)
                                    ELSE first_ranked
    /\ calls' = calls + 1
    /\ UNCHANGED <<top_k, rank_chunks, orig_points>>
    /\ UNCHANGED <<chunkVars, storeVars, extractVars, pipeVars>>

\* ---- inputs of the ranking stage
ChunkTexts == {Str3("a", " ", "b"), Str3("b", " ", "a"), Str3("a", " ", "c")}

Quotes == {None, Some(<<>>), Some(Str3("a", " ", "b")), Some(Str3("A", " ", "c")), Some(Str1("b"))}

Summaries == {Str1("c")}

Pages == 1..MaxPage

PageStarts == {None} \cup {Some(p) : p \in 1..(MaxPage + 1)}

ReconcilePoints ==
    [summary : Summaries, importance_score : {One},
     supporting_quote : Quotes, page_start : PageStarts,
     retrieval_score : {None}]

RankingPoints ==
    [summary : Summaries, importance_score : {Zero, One},
     supporting_quote : {None}, page_start : {None},
     retrieval_score : {None, Some(Zero), Some(One)}]

\* chunk lists of n chunks, pages in document order, chunk_index counting
\* the chunks of a page from 0
ChunkListsOfLen(n) ==
    {[i \in 1..n |->
        MakeChunk(ts[i], DocId, pg[i], MaxPage,
                  Cardinality({j \in 1..(i - 1) : pg[j] = pg[i]}))] :
       ts \in [1..n -> ChunkTexts],
       pg \in {f \in [1..n -> Pages] : \A i \in 1..n, j \in 1..n : i < j => f[i] <= f[j]}}

\* reconciliation inputs: one point with any quote and page_start against
\* any chunk list; ranking inputs: up to MaxPoints points with any scores
\* against at most one chunk
InitRank ==
    /\ \/ /\ extracted_points \in {<<p>> : p \in ReconcilePoints}
          /\ rank_chunks \in UNION {ChunkListsOfLen(n) : n \in 0..MaxChunks}
          /\ top_k \in 0..1
       \/ /\ extracted_points \in UNION {[1..n -> RankingPoints] : n \in 0..MaxPoints}
          /\ rank_chunks \in UNION {ChunkListsOfLen(n) : n \in 0..1}
          /\ top_k \in (0 - 1)..MaxTopK
    /\ orig_points = extracted_points
    /\ pre_points = <<>>
    /\ final_points = <<>>
    /\ ranked = <<>>
    /\ first_ranked = <<>>
    /\ calls = 0

\* ------------------------------------------------------------- PDFProcessor
\* text[start:end] for 0 <= start
Slice(t, from, to) == SubSeq(t, from + 1, Min(to, Len(t)))

\* variant: the index advances for every window, blank or not
ChunkIndexEveryWindow(idx, chunk_text) == idx + 1

\* chunk_index after the loop body
ChunkIndexAfter(idx, chunk_text) == IF IsBlank(chunk_text) THEN idx ELSE idx + 1

\* variant: the overlap is subtracted after the final window as well
NextStartAlwaysOverlap(end, overlap, length) == end - overlap

\* variant: the overlap is added instead of subtracted
NextStartSkip(end, overlap, length) == IF end < length THEN end + overlap ELSE end

\* start = end - self.chunk_overlap if end < len(text) else end
NextStart(end, overlap, length) == IF end < length THEN end - overlap ELSE end

\* process_pdf: the for loop takes the next page
ProcessPdfPage ==
    /\ pc = "pages"
    /\ page_num <= Len(pages)
    /\ IF pages[page_num] # <<>> /\ ~IsBlank(pages[page_num])
       THEN /\ pc' = "split"
            /\ text' = pages[page_num]
            /\ start' = 0
            /\ chunk_index' = 0
            /\ page_chunks' = <<>>
            /\ windows' = <<>>
            /\ UNCHANGED page_num
       ELSE /\ page_num' = page_num + 1
            /\ UNCHANGED <<pc, text, start, chunk_index, page_chunks, windows>>
    /\ UNCHANGED <<pages, chunk_size, chunk_overlap, caller, doc_chunks>>
    /\ UNCHANGED <<rankVars, storeVars, extractVars, pipeVars>>

\* process_pdf: the loop is over, return chunks, total_pages
ProcessPdfReturn ==
    /\ pc = "pages"
    /\ page_num > Len(pages)
    /\ pc' = "done"
    /\ UNCHANGED <<pages, chunk_size, chunk_overlap, caller, page_num, doc_chunks,
                   text, start, chunk_index, page_chunks, windows>>
    /\ UNCHANGED <<rankVars, storeVars, extractVars, pipeVars>>

\* _split_text_with_page: one iteration of the while loop
SplitStep ==
    /\ pc = "split"
    /\ start < Len(text)
    /\ Len(windows) < MaxIters
    /\ LET end == start + chunk_size
           chunk_text == Slice(text, start, end)
       IN /\ page_chunks' = IF ~IsBlank(chunk_text)
                            THEN Append(page_chunks,
                                        MakeChunk(chunk_text, DocId, page_num, Len(pages), chunk_index))
                            ELSE page_chunks
          /\ chunk_index' = ChunkIndexAfter(chunk_index, chunk_text)
          /\ windows' = Append(windows,
                               [start |-> start, end |-> end,
                                chunk |-> IF ~IsBlank(chunk_text) THEN Len(page_chunks) + 1 ELSE 0])
          /\ start' = NextStart(end, chunk_overlap, Len(text))
    /\ UNCHANGED <<pages, chunk_size, chunk_overlap, caller, pc, page_num, doc_chunks, text>>
    /\ UNCHANGED <<rankVars, storeVars, extractVars, pipeVars>>

\* _split_text_with_page returns; process_pdf extends its list
SplitReturn ==
    /\ pc = "split"
    /\ start >= Len(text)
    /\ doc_chunks' = doc_chunks \o page_chunks
    /\ IF caller = "process_pdf"
       THEN pc' = "pages" /\ page_num' = page_num + 1
       ELSE pc' = "done" /\ UNCHANGED page_num
    /\ UNCHANGED <<pages, chunk_size, chunk_overlap, caller,
                   text, start, chunk_index, page_chunks, windows>>
    /\ UNCHANGED <<rankVars, storeVars, extractVars, pipeVars>>

\* ---- inputs of the chunking stage
Chars == {"a", "b", " "}

RECURSIVE TextsOfLen(_)
TextsOfLen(n) ==
    IF n = 0 THEN {<<>>}
    ELSE {Append(t, c) : t \in TextsOfLen(n - 1), c \in Chars}

TextsUpTo(n) == UNION {TextsOfLen(k) : k \in 0..n}

\* the documents of at most n pages and at most budget characters in all
RECURSIVE DocsWithin(_, _)
DocsWithin(n, budget) ==
    IF n = 0 THEN {<<>>}
    ELSE {<<>>} \cup UNION {{<<t>> \o rest : rest \in DocsWithin(n - 1, budget - Len(t))} :
                            t \in TextsUpTo(budget)}

Docs == DocsWithin(MaxPages, MaxDocLen)

Repeat(c, n) == [i \in 1..n |-> c]

\* the least CHUNK_SIZE and the greatest CHUNK_OVERLAP that Settings accepts
ConfigChunkSizeMin == 500

ConfigChunkOverlapMax == 500

\* the constraints of the fields CHUNK_SIZE and CHUNK_OVERLAP of Settings;
\* no validator relates the two fields
SettingsAccepts(size, overlap) ==
    /\ ConfigChunkSizeMin <= size /\ size <= 3000
    /\ 0 <= overlap /\ overlap <= ConfigChunkOverlapMax

\* the two-page document of the end-to-end scenario
ScenarioPages == <<Repeat("a", 2 * DefaultChunkSize), Repeat("a", 500)>>

InitChunk ==
    /\ \/ /\ pages \in Docs
          /\ chunk_size \in 1..MaxChunkSize
          /\ chunk_overlap \in 0..chunk_size
          /\ caller \in {"process_pdf", "direct"}
          /\ caller = "direct" => Len(pages) = 1
       \/ /\ pages = ScenarioPages
          /\ chunk_size = DefaultChunkSize
          /\ chunk_overlap = DefaultChunkOverlap
          /\ caller = "process_pdf"
       \/ /\ pages = <<Repeat("a", ConfigChunkSizeMin + 1)>>
          /\ chunk_size = ConfigChunkSizeMin
          /\ chunk_overlap \in {0, DefaultChunkOverlap, ConfigChunkOverlapMax}
          /\ caller = "process_pdf"
    /\ pc = IF caller = "direct" THEN "split" ELSE "pages"
    /\ page_num = 1
    /\ doc_chunks = <<>>
    /\ text = IF caller = "direct" THEN pages[1] ELSE <<>>
    /\ start = 0
    /\ chunk_index = 0
    /\ page_chunks = <<>>
    /\ windows = <<>>

NextChunk == ProcessPdfPage \/ ProcessPdfReturn \/ SplitStep \/ SplitReturn

\* -------------------------------------------------------------- VectorStore
\* EmbeddingService.encode on one text: the vector computed from it
Embed(t) == [of |-> t]

\* faiss.IndexHNSWFlat(dimension, m) with hnsw.efConstruction set; ef_search
\* is None until a search sets hnsw.efSearch
FreshIndex ==
    [m |-> FaissM, ef_construction |-> FaissEfConstruction, ef_search |-> None, vectors |-> <<>>]

StoreFields == [index |-> vs_index, chunks |-> vs_chunks, doc_id |-> vs_doc_id]

\* variant: self.chunks = [] is missing
InitializeResultKeepChunks(st, d, force_new, faiss_ok) ==
    IF st.index # None /\ ~force_new
    THEN [index |-> st.index, chunks |-> st.chunks, doc_id |-> st.doc_id, outcome |-> "kept"]
    ELSE IF ~faiss_ok
    THEN [index |-> st.index, chunks |-> st.chunks, doc_id |-> st.doc_id, outcome |-> "raised"]
    ELSE [index |-> Some(FreshIndex), chunks |-> st.chunks, doc_id |-> Some(d), outcome |-> "created"]

\* the fields after initialize_index(d, force_new) called on fields st, and
\* how the call ended: early return, RuntimeError from the constructor, or
\* a new index
InitializeResult(st, d, force_new, faiss_ok) ==
    IF st.index # None /\ ~force_new
    THEN [index |-> st.index, chunks |-> st.chunks, doc_id |-> st.doc_id, outcome |-> "kept"]
    ELSE IF ~faiss_ok
    THEN [index |-> st.index, chunks |-> st.chunks, doc_id |-> st.doc_id, outcome |-> "raised"]
    ELSE [index |-> Some(FreshIndex), chunks |-> <<>>, doc_id |-> Some(d), outcome |-> "created"]

InitializeIndex(d, force_new, faiss_ok) ==
    LET r == InitializeResult(StoreFields, d, force_new, faiss_ok)
    IN /\ vs_index' = r.index
       /\ vs_chunks' = r.chunks
       /\ vs_doc_id' = r.doc_id
       /\ last_call' = [op |-> "initialize_index", doc_id |-> d, force_new |-> force_new,
                        added |-> <<>>, outcome |-> r.outcome, before |-> StoreFields]
       /\ UNCHANGED <<rankVars, chunkVars, extractVars, pipeVars>>

\* variant: the chunk list is extended before the texts are encoded
AddChunksResultExtendFirst(st, cs, embed_ok) ==
    IF st.index = None
    THEN [index |-> st.index, chunks |-> st.chunks, doc_id |-> st.doc_id, outcome |-> "raised"]
    ELSE IF cs = <<>> \/ ~embed_ok
    THEN [index |-> st.index, chunks |-> st.chunks \o cs, doc_id |-> st.doc_id, outcome |-> "raised"]
    ELSE [index |-> Some([st.index[1] EXCEPT
                             !.vectors = @ \o [i \in 1..Len(cs) |-> Embed(cs[i].text)]]),
          chunks |-> st.chunks \o cs,
          doc_id |-> st.doc_id,
          outcome |-> "added"]

\* the fields after add_chunks(cs): RuntimeError without an index, the
\* error of encode (empty list, backend failure) re-raised, else the
\* vectors and the chunks appended
AddChunksResult(st, cs, embed_ok) ==
    IF st.index = None \/ cs = <<>> \/ ~embed_ok
    THEN [index |-> st.index, chunks |-> st.chunks, doc_id |-> st.doc_id, outcome |-> "raised"]
    ELSE [index |-> Some([st.index[1] EXCEPT
                             !.vectors = @ \o [i \in 1..Len(cs) |-> Embed(cs[i].text)]]),
          chunks |-> st.chunks \o cs,
          doc_id |-> st.doc_id,
          outcome |-> "added"]

AddChunks(cs, embed_ok) ==
    /\ Len(vs_chunks) + Len(cs) <= MaxStoreChunks
    /\ LET r == AddChunksResult(StoreFields, cs, embed_ok)
       IN /\ vs_index' = r.index
          /\ vs_chunks' = r.chunks
          /\ vs_doc_id' = r.doc_id
          /\ last_call' = [op |-> "add_chunks", doc_id |-> "", force_new |-> FALSE,
                           added |-> cs, outcome |-> r.outcome, before |-> StoreFields]
    /\ UNCHANGED <<rankVars, chunkVars, extractVars, pipeVars>>

\* a distance reported by index.search: a float32 that is NaN, +inf, -inf
\* or a finite number
NaN == [kind |-> "nan", val |-> Zero]

PosInf == [kind |-> "inf", val |-> Zero]

NegInf == [kind |-> "ninf", val |-> Zero]

Num(n, d) == [kind |-> "num", val |-> Rat(n, d)]

\* 1.0 / x for x # 0
Recip(x) == IF x.n > 0 THEN Rat(x.d, x.n) ELSE Rat(0 - x.d, 0 - x.n)

\* max(0.0, min(x, 1.0))
Clamp01(x) == RatMax(Zero, IF RatLess(One, x) THEN One ELSE x)

\* if math.isnan(dist) or math.isinf(dist): dist = 1e6
SanitizeDistance(dist) == IF dist.kind = "num" THEN dist.val ELSE Rat(SentinelDistance, 1)

\* variant: dist = max(dist, 0.0) is missing
RetrievalScoreNoNegClamp(dist) ==
    Clamp01(Recip(RatAdd(One, SanitizeDistance(dist))))

\* the retrieval_score search computes from a reported distance
RetrievalScore(dist) ==
    Clamp01(Recip(RatAdd(One, RatMax(SanitizeDistance(dist), Zero))))

\* variant: the reported position is used without the range check, so -1
\* reads the last chunk
SearchResultsNoRangeCheck(chunks, report) ==
    [i \in 1..Len(report) |->
        [chunk |-> chunks[IF report[i].idx >= 0 THEN report[i].idx + 1 ELSE Len(chunks) + 1 + report[i].idx],
         score |-> RetrievalScore(report[i].dist)]]

\* the loop over zip(distances[0], indices[0]): one (chunk, score) pair for
\* every reported position inside the chunk list, in the reported order
RECURSIVE SearchResults(_, _)
SearchResults(chunks, report) ==
    IF report = <<>> THEN <<>>
    ELSE LET h == Head(report)
         IN (IF 0 <= h.idx /\ h.idx < Len(chunks)
             THEN <<[chunk |-> chunks[h.idx + 1], score |-> RetrievalScore(h.dist)]>>
             ELSE <<>>) \o SearchResults(chunks, Tail(report))

\* the index after self.index.hnsw.efSearch = ef_search
WithEfSearch(ix, ef_search) == Some([ix[1] EXCEPT !.ef_search = Some(ef_search)])

\* search(query, top_k, ef_search) on fields st when the engine reports
\* report: [] without an index or without chunks, RuntimeError when the
\* query cannot be encoded, else the pairs built from the report
SearchResult(st, ef_search, embed_ok, report) ==
    IF st.index = None \/ st.chunks = <<>>
    THEN [index |-> st.index, results |-> <<>>, outcome |-> "returned"]
    ELSE IF ~embed_ok
    THEN [index |-> WithEfSearch(st.index, ef_search), results |-> <<>>, outcome |-> "raised"]
    ELSE [index |-> WithEfSearch(st.index, ef_search),
          results |-> SearchResults(st.chunks, report),
          outcome |-> "returned"]

\* what index.search(query_embedding, k) can report over n vectors: k
\* (distance, position) pairs, the positions found first and distinct, then
\* -1 for every neighbour the graph traversal did not find
LabelSeqs(n, k) ==
    {l \in [1..k -> (0 - 1)..(n - 1)] :
        \A i \in 1..k, j \in 1..k :
            i < j => /\ (l[i] >= 0 /\ l[j] >= 0) => l[i] # l[j]
                     /\ l[i] < 0 => l[j] < 0}

\* the queries a search is made with, and the distance the engine computes
\* between a query and the vector of a chunk text
Queries == {"q1", "q2", "q3", "q4"}

QueryDistance(query, t) ==
    CASE query = "q1" -> (IF t = Str1("a") THEN Num(0, 1) ELSE Num(1, 2))
      [] query = "q2" -> (IF t = Str1("a") THEN Num(2, 1) ELSE Num(1, 2))
      [] query = "q3" -> (IF t = Str1("a") THEN NaN ELSE Num(0 - 2, 1))
      [] query = "q4" -> (IF t = Str1("a") THEN PosInf ELSE NegInf)

\* the values of top_k a search is made with
SearchTopKs == {1, 2}

Reports(chunks, query, k) ==
    {[i \in 1..k |->
        [dist |-> IF l[i] >= 0 THEN QueryDistance(query, chunks[l[i] + 1].text) ELSE PosInf,
         idx |-> l[i]]] : l \in LabelSeqs(Len(chunks), k)}

\* the reports a call search(query, top_k) can meet on fields st
SearchReports(st, query, search_k, embed_ok) ==
    IF st.index = None \/ st.chunks = <<>> \/ ~embed_ok
    THEN {<<>>}
    ELSE Reports(st.chunks, query, Min(search_k, Len(st.chunks)))

Search(query, search_k, ef_search, embed_ok, report) ==
    /\ report \in SearchReports(StoreFields, query, search_k, embed_ok)
    /\ LET r == SearchResult(StoreFields, ef_search, embed_ok, report)
       IN /\ vs_index' = r.index
          /\ last_call' = [op |-> "search", doc_id |-> "", force_new |-> FALSE,
                           added |-> <<>>, outcome |-> r.outcome, before |-> StoreFields,
                           query |-> query, top_k |-> search_k, report |-> report,
                           results |-> r.results]
    /\ UNCHANGED <<vs_chunks, vs_doc_id, rankVars, chunkVars, extractVars, pipeVars>>

\* ---- inputs of the store
DocIds == {"d1", "d2"}

StoreTexts == {Str1("a"), Str1("b")}

StoreChunkLists ==
    UNION {{[i \in 1..n |-> MakeChunk(ts[i], DocId, 1, 1, i - 1)] : ts \in [1..n -> StoreTexts]} :
           n \in 0..MaxAdd}

InitStore ==
    /\ vs_index = None
    /\ vs_chunks = <<>>
    /\ vs_doc_id = None
    /\ last_call = [op |-> "__init__", doc_id |-> "", force_new |-> FALSE, added |-> <<>>,
                    outcome |-> "created",
                    before |-> [index |-> None, chunks |-> <<>>, doc_id |-> None]]

NextStore ==
    \/ \E d \in DocIds, force_new \in BOOLEAN, faiss_ok \in BOOLEAN :
          InitializeIndex(d, force_new, faiss_ok)
    \/ \E cs \in StoreChunkLists, embed_ok \in BOOLEAN : AddChunks(cs, embed_ok)
    \/ \E query \in Queries, search_k \in SearchTopKs, embed_ok \in BOOLEAN :
          \E report \in SearchReports(StoreFields, query, search_k, embed_ok) :
              Search(query, search_k, FaissEfSearch, embed_ok, report)

\* -------------------------------------------------- JSON and parse recovery
\* a JSON value as json.loads returns it: None, a number, a bool, a str, a
\* list or a dict.  Free text (summary, argument, supporting_quote) is a
\* sequence of characters; the words of the stance, category and score
\* fields are atoms
JNull == [t |-> "null"]

JNum(n, d) == [t |-> "num", num |-> Rat(n, d)]

JBool(b) == [t |-> "bool", bool |-> b]

JStr(w) == [t |-> "str", str |-> w]

JText(chars) == [t |-> "str", text |-> chars]

JArr(items) == [t |-> "arr", arr |-> items]

JObj(fields) == [t |-> "obj", obj |-> fields]

\* dict.get(key, default)
JGet(o, key, default) == IF key \in DOMAIN o.obj THEN o.obj[key] ELSE default

\* Python truthiness of a parsed value
JTruthy(v) ==
    CASE v.t = "null" -> FALSE
      [] v.t = "num" -> v.num.n # 0
      [] v.t = "bool" -> v.bool
      [] v.t = "str" -> (IF "text" \in DOMAIN v THEN v.text # <<>> ELSE v.str # "")
      [] v.t = "arr" -> v.arr # <<>>
      [] v.t = "obj" -> DOMAIN v.obj # {}

\* the parts a response text is made of: the text of one JSON value, prose
\* without brackets or fences, a ``` or ```json fence, one of the prefixes
\* of _try_remove_prefix, or bracketed text that is no JSON ("{...}").  A
\* text holds at most one part with brackets
SegJson(v) == [k |-> "json", v |-> v]

SegProse == [k |-> "prose"]

SegFence(lang) == [k |-> "fence", lang |-> lang]

SegPrefix == [k |-> "prefix"]

SegJunk == [k |-> "junk"]

\* json.loads(text): the value, or None when it raises (wrapped, since the
\* value may itself be null)
JsonLoads(segs) ==
    IF Len(segs) = 1 /\ segs[1].k = "json" THEN Some(segs[1].v) ELSE None

\* what a strategy hands back for a loaded value: json null is Python None
Loaded(r) == IF r = None \/ r = Some(JNull) THEN None ELSE r

TryDirectParse(segs) == Loaded(JsonLoads(segs))

\* the matches of one pattern of _try_code_block: an opening fence of the
\* given language, bracketed text of the given shape, a closing fence
FenceMatches(segs, lang, shape) ==
    {i \in 1..(Len(segs) - 2) :
        /\ segs[i].k = "fence" /\ segs[i].lang = lang
        /\ segs[i + 2].k = "fence"
        /\ \/ segs[i + 1].k = "json" /\ segs[i + 1].v.t = shape
           \/ segs[i + 1].k = "junk" /\ shape = "obj"}

\* the first match of one pattern that json.loads accepts
FirstLoadable(segs, lang, shape) ==
    LET ok == {i \in FenceMatches(segs, lang, shape) : segs[i + 1].k = "json"}
    IN IF ok = {} THEN None
       ELSE Some(segs[(CHOOSE i \in ok : \A j \in ok : i <= j) + 1].v)

TryCodeBlock(segs) ==
    IF FirstLoadable(segs, "json", "obj") # None THEN FirstLoadable(segs, "json", "obj")
    ELSE IF FirstLoadable(segs, "", "obj") # None THEN FirstLoadable(segs, "", "obj")
    ELSE IF FirstLoadable(segs, "json", "arr") # None THEN FirstLoadable(segs, "json", "arr")
    ELSE FirstLoadable(segs, "", "arr")

\* the part of the text that holds a bracket, if any
Bracketed(segs) ==
    {i \in 1..Len(segs) :
        \/ segs[i].k = "junk"
        \/ segs[i].k = "json" /\ segs[i].v.t \in {"obj", "arr"}}

\* text[find('{') : rfind('}') + 1] then text[find('[') : rfind(']') + 1]:
\* a dict is cut out whole; of a list the stretch from the first brace to
\* the last is JSON only when exactly one item is a dict; a list without
\* braces is cut out whole by the second attempt
TryBracketExtract(segs) ==
    IF Bracketed(segs) = {} THEN None
    ELSE LET s == segs[CHOOSE i \in Bracketed(segs) : TRUE]
         IN IF s.k = "junk" THEN None
            ELSE IF s.v.t = "obj" THEN Some(s.v)
            ELSE LET dicts == {j \in 1..Len(s.v.arr) : s.v.arr[j].t = "obj"}
                 IN IF Cardinality(dicts) = 1
                    THEN Some(s.v.arr[CHOOSE j \in dicts : TRUE])
                    ELSE Some(s.v)

TryRemovePrefix(segs) ==
    IF segs # <<>> /\ segs[1].k = "prefix" THEN Loaded(JsonLoads(Tail(segs))) ELSE None

\* parse_json_response: the first strategy, in order, that yields a value
ParseJsonResponse(segs) ==
    IF segs = <<>> THEN None
    ELSE IF TryDirectParse(segs) # None THEN TryDirectParse(segs)
    ELSE IF TryCodeBlock(segs) # None THEN TryCodeBlock(segs)
    ELSE IF TryBracketExtract(segs) # None THEN TryBracketExtract(segs)
    ELSE TryRemovePrefix(segs)

\* -------------------------------------------------------------- LLMAnalyzer
\* the members of Stance and ArgumentCategory
Stances == {"plaintiff", "defendant", "amicus", "for", "against", "neutral", "unknown"}

ArgumentCategories ==
    {"statutory", "regulatory", "constitutional", "case_law", "procedural", "policy", "other"}

\* min_length of ExtractedPoint.summary
MinSummaryLength == 5

\* default of max_chunks in analyze_chunks
MaxChunksToAnalyze == 30

\* str.lower() on the words of the stance and category fields
LowerWord(w) == CASE w = "FOR" -> "for" [] w = "Policy" -> "policy" [] OTHER -> w

\* float(x): None when it raises (TypeError for null, list and dict,
\* ValueError for a str that spells no number)
FloatOf(v) ==
    CASE v.t = "num" -> Some(v.num)
      [] v.t = "bool" -> Some(IF v.bool THEN One ELSE Zero)
      [] v.t = "str" -> (IF "str" \in DOMAIN v /\ v.str = "0.7" THEN Some(Rat(7, 10)) ELSE None)
      [] OTHER -> None

\* LLMAnalyzer.__init__: llm is None when langchain_groq is missing or
\* ChatGroq(...) raises
LLMInit(has_chatgroq, ctor_ok) == IF has_chatgroq /\ ctor_ok THEN Some("ChatGroq") ELSE None

\* Stance(stance_str.lower()) with the fallback to UNKNOWN on ValueError;
\* None when .lower() raises AttributeError on a value that is no str
StanceOf(point_data) ==
    LET v == JGet(point_data, "stance", JStr("unknown"))
    IN IF v.t # "str" THEN None
       ELSE Some(IF LowerWord(v.str) \in Stances THEN LowerWord(v.str) ELSE "unknown")

CategoryOf(point_data) ==
    LET v == JGet(point_data, "category", JStr("other"))
    IN IF v.t # "str" THEN None
       ELSE Some(IF LowerWord(v.str) \in ArgumentCategories THEN LowerWord(v.str) ELSE "other")

\* point_data.get('summary', point_data.get('argument', ''))
SummaryOf(point_data) == JGet(point_data, "summary", JGet(point_data, "argument", JText(<<>>)))

\* point_data.get('page_start') or point_data.get('page_number')
PageStartOf(point_data) ==
    IF JTruthy(JGet(point_data, "page_start", JNull))
    THEN JGet(point_data, "page_start", JNull)
    ELSE JGet(point_data, "page_number", JNull)

\* Optional[int] with ge=1 and Optional[str]: whether pydantic accepts the
\* value, and the field value then
OptInt(v) ==
    IF v.t = "null" THEN [ok |-> TRUE, val |-> None]
    ELSE IF v.t = "num" /\ v.num.d = 1 /\ v.num.n >= 1 THEN [ok |-> TRUE, val |-> Some(v.num.n)]
    ELSE [ok |-> FALSE, val |-> None]

OptText(v) ==
    IF v.t = "null" THEN [ok |-> TRUE, val |-> None]
    ELSE IF v.t = "str" /\ "text" \in DOMAIN v THEN [ok |-> TRUE, val |-> Some(v.text)]
    ELSE [ok |-> FALSE, val |-> None]

\* the body of the loop over points_data for the record at position i:
\* the ExtractedPoint built from it, or None when the body raises (item
\* assignment on a value that is no dict, .lower() on a value that is no
\* str, float() failing, pydantic rejecting a field); src is the position
\* of the record, kept for the properties
BuildPoint(point_data, retrieval_score, i) ==
    IF point_data.t # "obj" THEN None
    ELSE IF StanceOf(point_data) = None \/ CategoryOf(point_data) = None THEN None
    ELSE LET summary == SummaryOf(point_data)
             score == FloatOf(JGet(point_data, "importance_score", JNum(1, 2)))
             quote == OptText(JGet(point_data, "supporting_quote", JNull))
             page == OptInt(PageStartOf(point_data))
         IN IF ~(summary.t = "str" /\ "text" \in DOMAIN summary) THEN None
            ELSE IF Len(summary.text) < MinSummaryLength THEN None
            ELSE IF score = None THEN None
            ELSE IF RatLess(score[1], Zero) \/ RatLess(One, score[1]) THEN None
            ELSE IF ~quote.ok \/ ~page.ok THEN None
            ELSE IF RatLess(retrieval_score, Zero) THEN None
            ELSE Some([summary |-> summary.text,
                       importance_score |-> score[1],
                       stance |-> StanceOf(point_data)[1],
                       supporting_quote |-> quote.val,
                       page_start |-> page.val,
                       category |-> CategoryOf(point_data)[1],
                       retrieval_score |-> Some(retrieval_score),
                       src |-> i])

\* chunks_to_analyze[i][1] if i < len(chunks_to_analyze) else 0.5
RetrievalScoreAt(chunks_to_analyze, i) ==
    IF i <= Len(chunks_to_analyze) THEN chunks_to_analyze[i].score ELSE Half

\* the loop over enumerate(points_data) from position i on
RECURSIVE BuildPoints(_, _, _)
BuildPoints(points_data, chunks_to_analyze, i) ==
    IF i > Len(points_data) THEN <<>>
    ELSE BuildPoint(points_data[i], RetrievalScoreAt(chunks_to_analyze, i), i)
            \o BuildPoints(points_data, chunks_to_analyze, i + 1)

EmptyAnalysis == [extracted_points |-> <<>>, confidence |-> Zero]

\* parsed_data.get('arguments', []) or parsed_data.get('extracted_points', [])
PointsData(parsed_data) ==
    IF JTruthy(JGet(parsed_data, "arguments", JArr(<<>>)))
    THEN JGet(parsed_data, "arguments", JArr(<<>>))
    ELSE JGet(parsed_data, "extracted_points", JArr(<<>>))

\* the items enumerate(points_data) yields: those of a list; a dict or a
\* str yields its keys or characters, each a str that the loop body drops
IterItems(points_data) == IF points_data.t = "arr" THEN points_data.arr ELSE <<>>

\* the try block of analyze_chunks after parse_json_response returned
\* parsed: a falsy value gives the empty result; every exception outside
\* the loop body (.get on a value that is no dict, iterating a value that
\* is no list, float() on the confidence, LLMAnalysisOutput rejecting a
\* confidence outside [0,1]) is caught and gives the empty result too
AnalyzeParsed(parsed, chunks_to_analyze) ==
    IF parsed = None \/ ~JTruthy(parsed[1]) THEN EmptyAnalysis
    ELSE IF parsed[1].t # "obj" THEN EmptyAnalysis
    ELSE IF PointsData(parsed[1]).t \in {"null", "num", "bool"} THEN EmptyAnalysis
    ELSE LET confidence == FloatOf(JGet(parsed[1], "confidence", JNum(4, 5)))
         IN IF confidence = None THEN EmptyAnalysis
            ELSE IF RatLess(confidence[1], Zero) \/ RatLess(One, confidence[1])
            THEN EmptyAnalysis
            ELSE [extracted_points |-> BuildPoints(IterItems(PointsData(parsed[1])),
                                                   chunks_to_analyze, 1),
                  confidence |-> confidence[1]]

\* variant: an exception of llm.invoke is not caught
AnalyzeChunksInvokeUncaught(llm, chunks_with_scores, max_chunks, invoke) ==
    IF llm = None THEN [raised |-> FALSE, output |-> EmptyAnalysis]
    ELSE IF invoke = None THEN [raised |-> TRUE, output |-> EmptyAnalysis]
    ELSE [raised |-> FALSE,
          output |-> AnalyzeParsed(ParseJsonResponse(invoke[1]),
                                   SliceTo(chunks_with_scores, max_chunks))]

\* analyze_chunks: the fallback without a client, else the result of the
\* try block; invoke is None when llm.invoke raises, else the response text
AnalyzeChunks(llm, chunks_with_scores, max_chunks, invoke) ==
    IF llm = None THEN [raised |-> FALSE, output |-> EmptyAnalysis]
    ELSE IF invoke = None THEN [raised |-> FALSE, output |-> EmptyAnalysis]
    ELSE [raised |-> FALSE,
          output |-> AnalyzeParsed(ParseJsonResponse(invoke[1]),
                                   SliceTo(chunks_with_scores, max_chunks))]

\* ---- one LLMAnalyzer: construction, then one call of analyze_chunks
LLMAnalyzerNew(has_chatgroq, ctor_ok) ==
    /\ an_state = "new"
    /\ an_state' = "ready"
    /\ an_llm' = LLMInit(has_chatgroq, ctor_ok)
    /\ UNCHANGED an_call
    /\ UNCHANGED <<rankVars, chunkVars, storeVars, pipeVars>>

AnalyzeChunksCall(chunks_with_scores, invoke) ==
    /\ an_state = "ready"
    /\ an_state' = "called"
    /\ an_call' = [chunks_with_scores |-> chunks_with_scores,
                   invoke |-> invoke,
                   result |-> Some(AnalyzeChunks(an_llm, chunks_with_scores,
                                                 MaxChunksToAnalyze, invoke))]
    /\ UNCHANGED an_llm
    /\ UNCHANGED <<rankVars, chunkVars, storeVars, pipeVars>>

\* ---- inputs of the analyzer
TextABC == <<"a", " ", "b", " ", "c">>

TextCAB == <<"c", " ", "a", " ", "b", " ", "a">>

\* argument records: two valid ones, then one per way of being invalid or
\* of differing from the prompt's format
RecValid ==
    JObj([summary |-> JText(TextABC), importance_score |-> JNum(1, 1),
          stance |-> JStr("for"), category |-> JStr("policy")])

RecValidB == JObj([summary |-> JText(TextCAB), importance_score |-> JNum(1, 2)])

RecNoSummary == JObj([importance_score |-> JNum(1, 1)])

RecShort == JObj([summary |-> JText(Str3("a", " ", "b")), importance_score |-> JNum(1, 1)])

RecScoreHigh == JObj([summary |-> JText(TextABC), importance_score |-> JNum(3, 2)])

RecScoreWord == JObj([summary |-> JText(TextABC), importance_score |-> JStr("high")])

RecNotObject == JStr("oops")

RecArgument == JObj([argument |-> JText(TextABC), importance_score |-> JNum(1, 1)])

RecScoreNumStr == JObj([summary |-> JText(TextABC), importance_score |-> JStr("0.7")])

RecStanceNull ==
    JObj([summary |-> JText(TextABC), importance_score |-> JNum(1, 1), stance |-> JNull])

RecStanceCase ==
    JObj([summary |-> JText(TextABC), importance_score |-> JNum(1, 1),
          stance |-> JStr("FOR"), category |-> JStr("Policy")])

RecStanceOdd ==
    JObj([summary |-> JText(TextABC), importance_score |-> JNum(1, 1),
          stance |-> JStr("maybe"), category |-> JStr("misc")])

RecCategoryNum ==
    JObj([summary |-> JText(TextABC), importance_score |-> JNum(1, 1),
          category |-> JNum(7, 1)])

ArgRecords ==
    {RecValid, RecValidB, RecNoSummary, RecShort, RecScoreHigh, RecScoreWord, RecNotObject,
     RecArgument, RecScoreNumStr, RecStanceNull, RecStanceCase, RecStanceOdd, RecCategoryNum}

ArgLists == UNION {[1..n -> ArgRecords] : n \in 0..MaxArgs}

\* parsed values that differ in their top-level shape, their key and their
\* confidence field
Confidences == {JNum(9, 10), JNum(3, 2), JStr("high"), JNull}

ShapeValues ==
    {JObj([arguments |-> JArr(l), confidence |-> c]) : l \in {<<>>, <<RecValid>>}, c \in Confidences}
    \cup {JObj([extracted_points |-> JArr(<<RecValid>>)]),
          JObj([arguments |-> JNull, extracted_points |-> JArr(<<RecValid>>)]),
          JObj([arguments |-> JNum(7, 1)]),
          JObj([confidence |-> JNum(9, 10)]),
          JArr(<<RecValid>>),
          JArr(<<RecValid, RecValidB>>),
          JNum(42, 1),
          JNull}

\* the ways a value is wrapped in the response text
Wrap(kind, v) ==
    CASE kind = "plain" -> <<SegJson(v)>>
      [] kind = "fenced" -> <<SegProse, SegFence("json"), SegJson(v), SegFence("")>>
      [] kind = "fenced_bare" -> <<SegFence(""), SegJson(v), SegFence(""), SegProse>>
      [] kind = "embedded" -> <<SegProse, SegJson(v), SegProse>>
      [] kind = "prefixed" -> <<SegPrefix, SegJson(v)>>

Wrappers == {"plain", "fenced", "fenced_bare", "embedded", "prefixed"}

GarbageTexts == {<<>>, <<SegProse>>, <<SegJunk>>, <<SegFence("json"), SegJunk, SegFence("")>>}

\* what llm.invoke can do: raise (None), or return a response text
Invokes ==
    {None}
    \cup {Some(<<SegJson(JObj([arguments |-> JArr(l)]))>>) : l \in ArgLists}
    \cup {Some(Wrap(w, v)) : w \in Wrappers, v \in ShapeValues}
    \cup {Some(g) : g \in GarbageTexts}

ScoredChunkLists ==
    {<<>>, <<[chunk |-> MakeChunk(Str1("a"), DocId, 1, 1, 0), score |-> Rat(1, 4)]>>}

ExtractIdle ==
    /\ an_state = "new"
    /\ an_llm = None
    /\ an_call = [chunks_with_scores |-> <<>>, invoke |-> None, result |-> None]

NextExtract ==
    \/ \E has_chatgroq \in BOOLEAN, ctor_ok \in BOOLEAN : LLMAnalyzerNew(has_chatgroq, ctor_ok)
    \/ \E cws \in ScoredChunkLists, invoke \in Invokes : AnalyzeChunksCall(cws, invoke)

\* --------------------------------------------------------- AnalysisPipeline
\* defaults of TOP_K_RETRIEVAL and FINAL_OUTPUT_COUNT
TopKRetrieval == 60

FinalOutputCount == 10

\* _split_text_with_page as a function: the chunks of the windows from
\* start on (chunk_overlap < chunk_size)
RECURSIVE SplitTextWithPage(_, _, _, _, _, _, _, _)
SplitTextWithPage(t, page_number, doc_id, total_pages, size, overlap, from, idx) ==
    IF from >= Len(t) THEN <<>>
    ELSE LET end == from + size
             chunk_text == Slice(t, from, end)
         IN (IF ~IsBlank(chunk_text)
             THEN <<MakeChunk(chunk_text, doc_id, page_number, total_pages, idx)>>
             ELSE <<>>)
            \o SplitTextWithPage(t, page_number, doc_id, total_pages, size, overlap,
                                 NextStart(end, overlap, Len(t)), ChunkIndexAfter(idx, chunk_text))

\* the for loop of process_pdf from page page_number on
RECURSIVE ProcessPages(_, _, _, _, _)
ProcessPages(doc_pages, doc_id, size, overlap, page_number) ==
    IF page_number > Len(doc_pages) THEN <<>>
    ELSE (IF doc_pages[page_number] # <<>> /\ ~IsBlank(doc_pages[page_number])
          THEN SplitTextWithPage(doc_pages[page_number], page_number, doc_id, Len(doc_pages),
                                 size, overlap, 0, 0)
          ELSE <<>>)
         \o ProcessPages(doc_pages, doc_id, size, overlap, page_number + 1)

\* process_pdf on a file pdfplumber can open: chunks, total_pages
ProcessPdf(doc_pages, doc_id, size, overlap) ==
    [chunks |-> ProcessPages(doc_pages, doc_id, size, overlap, 1), total_pages |-> Len(doc_pages)]

\* calculate_content_hash: the hex digest of the bytes, one per content
ContentHash(content) ==
    CASE content = "A" -> "559aead0"
      [] content = "B" -> "df7e70e5"
      [] content = "blank" -> "a5e1f1a4"
      [] content = "broken" -> "0b8f2a5e"

\* MetadataExtractor.extract_metadata(chunks, doc_name)
ExtractMetadata(chunks) ==
    IF chunks = <<>> THEN None
    ELSE Some([total_pages |-> chunks[1].total_pages,
               total_chunks |-> Len(chunks),
               document_id |-> chunks[1].document_id])

\* the query of step 6
PipelineQuery == "q1"

\* variant: initialize_index is called with the default force_new
PipelineForceNewDefault == FALSE

\* force_new of the initialize_index call of step 4
PipelineForceNew == TRUE

\* variant: every pipeline uses one module-level VectorStore
StoreKeyShared(p) == "p1"

\* the VectorStore of pipeline p: the one its constructor made
StoreKey(p) == p

\* the steps of analyze_document in program order
Stages ==
    <<"hash", "chunk", "metadata", "initialize", "add", "retrieve", "extract", "rank", "result">>

StageAfter(stage) ==
    IF stage = "result" THEN "returned"
    ELSE Stages[(CHOOSE i \in 1..Len(Stages) : Stages[i] = stage) + 1]

\* variant: an exception of a step is logged and the run goes on
AdvanceIgnoreFailure(stage, ok) == StageAfter(stage)

\* where the run is after a step: at the next step, or ended by the
\* exception that the except clause of analyze_document re-raises
Advance(stage, ok) == IF ok THEN StageAfter(stage) ELSE "raised"

EmptyStore == [index |-> None, chunks |-> <<>>, doc_id |-> None]

NoFile == [exists |-> FALSE, content |-> "", readable |-> FALSE, pages |-> <<>>]

IdleRun ==
    [stage |-> "idle", file |-> NoFile, doc_id |-> "", chunks |-> <<>>, total_pages |-> 0,
     metadata |-> None, retrieved |-> <<>>, invoke |-> None, llm_output |-> None,
     key_points |-> <<>>, trace |-> <<>>, error |-> None, result |-> None]

PipelineIds == {"p1", "p2"}

\* AnalysisPipeline(settings): a new analyzer and a new, empty VectorStore
NewPipeline(p, has_chatgroq, ctor_ok) ==
    /\ pipelines[p] = None
    /\ pipelines' = [pipelines EXCEPT ![p] = Some([llm |-> LLMInit(has_chatgroq, ctor_ok),
                                                   runs |-> 0, history |-> <<>>])]
    /\ stores' = [stores EXCEPT ![StoreKey(p)] = EmptyStore]
    /\ UNCHANGED run
    /\ UNCHANGED <<rankVars, chunkVars, storeVars, extractVars>>

\* analyze_document(pdf_path, filename) is called on a pipeline that has
\* no call in progress and has made fewer than limit calls
AnalyzeDocument(p, file, limit) ==
    /\ pipelines[p] # None
    /\ run[p].stage \in {"idle", "returned", "raised"}
    /\ pipelines[p][1].runs < limit
    /\ pipelines' = [pipelines EXCEPT ![p] =
                        Some([@[1] EXCEPT !.runs = @ + 1,
                                          !.history = IF run[p].stage = "idle" THEN @
                                                      ELSE Append(@, [doc_id |-> run[p].doc_id,
                                                                      stage |-> run[p].stage])])]
    /\ run' = [run EXCEPT ![p] = [IdleRun EXCEPT !.stage = "hash", !.file = file]]
    /\ UNCHANGED stores
    /\ UNCHANGED <<rankVars, chunkVars, storeVars, extractVars>>

\* step 1: the path is a file, its bytes are not empty, doc_id is their hash
RunHash(p) ==
    /\ run[p].stage = "hash"
    /\ LET ok == run[p].file.exists /\ run[p].file.content # ""
       IN run' = [run EXCEPT ![p] =
                     [@ EXCEPT !.stage = Advance("hash", ok),
                               !.error = IF ok THEN @ ELSE Some("hash"),
                               !.trace = Append(@, "hash"),
                               !.doc_id = IF ok THEN ContentHash(run[p].file.content) ELSE @]]
    /\ UNCHANGED <<pipelines, stores>>
    /\ UNCHANGED <<rankVars, chunkVars, storeVars, extractVars>>

\* step 2: process_pdf raises when the file cannot be read; no chunk is an
\* error
RunChunk(p) ==
    /\ run[p].stage = "chunk"
    /\ LET r == ProcessPdf(run[p].file.pages, run[p].doc_id, DefaultChunkSize, DefaultChunkOverlap)
           ok == run[p].file.readable /\ r.chunks # <<>>
       IN run' = [run EXCEPT ![p] =
                     [@ EXCEPT !.stage = Advance("chunk", ok),
                               !.error = IF ok THEN @ ELSE Some("chunk"),
                               !.trace = Append(@, "chunk"),
                               !.chunks = IF run[p].file.readable THEN r.chunks ELSE @,
                               !.total_pages = IF run[p].file.readable THEN r.total_pages ELSE @]]
    /\ UNCHANGED <<pipelines, stores>>
    /\ UNCHANGED <<rankVars, chunkVars, storeVars, extractVars>>

\* step 3
RunMetadata(p) ==
    /\ run[p].stage = "metadata"
    /\ run' = [run EXCEPT ![p] =
                  [@ EXCEPT !.stage = Advance("metadata", TRUE),
                            !.trace = Append(@, "metadata"),
                            !.metadata = ExtractMetadata(run[p].chunks)]]
    /\ UNCHANGED <<pipelines, stores>>
    /\ UNCHANGED <<rankVars, chunkVars, storeVars, extractVars>>

\* step 4: initialize_index(doc_id, force_new=True) on the pipeline's store
RunInitialize(p, faiss_ok) ==
    /\ run[p].stage = "initialize"
    /\ LET r == InitializeResult(stores[StoreKey(p)], run[p].doc_id, PipelineForceNew, faiss_ok)
       IN /\ stores' = [stores EXCEPT ![StoreKey(p)] =
                           [index |-> r.index, chunks |-> r.chunks, doc_id |-> r.doc_id]]
          /\ run' = [run EXCEPT ![p] =
                        [@ EXCEPT !.stage = Advance("initialize", r.outcome # "raised"),
                                  !.error = IF r.outcome # "raised" THEN @ ELSE Some("initialize"),
                                  !.trace = Append(@, "initialize")]]
    /\ UNCHANGED pipelines
    /\ UNCHANGED <<rankVars, chunkVars, storeVars, extractVars>>

\* step 5: add_chunks(chunks)
RunAddChunks(p, embed_ok) ==
    /\ run[p].stage = "add"
    /\ LET r == AddChunksResult(stores[StoreKey(p)], run[p].chunks, embed_ok)
       IN /\ stores' = [stores EXCEPT ![StoreKey(p)] =
                           [index |-> r.index, chunks |-> r.chunks, doc_id |-> r.doc_id]]
          /\ run' = [run EXCEPT ![p] =
                        [@ EXCEPT !.stage = Advance("add", r.outcome # "raised"),
                                  !.error = IF r.outcome # "raised" THEN @ ELSE Some("add"),
                                  !.trace = Append(@, "add")]]
    /\ UNCHANGED pipelines
    /\ UNCHANGED <<rankVars, chunkVars, storeVars, extractVars>>

\* step 6: search(query, top_k=TOP_K_RETRIEVAL, ef_search=FAISS_EF_SEARCH)
RunRetrieve(p, embed_ok) ==
    /\ run[p].stage = "retrieve"
    /\ \E report \in SearchReports(stores[StoreKey(p)], PipelineQuery, TopKRetrieval, embed_ok) :
          LET r == SearchResult(stores[StoreKey(p)], FaissEfSearch, embed_ok, report)
          IN /\ stores' = [stores EXCEPT ![StoreKey(p)].index = r.index]
             /\ run' = [run EXCEPT ![p] =
                           [@ EXCEPT !.stage = Advance("retrieve", r.outcome # "raised"),
                                     !.error = IF r.outcome # "raised" THEN @ ELSE Some("retrieve"),
                                     !.trace = Append(@, "retrieve"),
                                     !.retrieved = r.results]]
    /\ UNCHANGED pipelines
    /\ UNCHANGED <<rankVars, chunkVars, storeVars, extractVars>>

\* step 7: analyze_chunks(retrieved_chunks, max_chunks=30)
RunExtract(p, invoke) ==
    /\ run[p].stage = "extract"
    /\ LET r == AnalyzeChunks(pipelines[p][1].llm, run[p].retrieved, MaxChunksToAnalyze, invoke)
       IN run' = [run EXCEPT ![p] =
                     [@ EXCEPT !.stage = Advance("extract", ~r.raised),
                               !.error = IF ~r.raised THEN @ ELSE Some("extract"),
                               !.trace = Append(@, "extract"),
                               !.invoke = Some(invoke),
                               !.llm_output = IF r.raised THEN @ ELSE Some(r.output)]]
    /\ UNCHANGED <<pipelines, stores>>
    /\ UNCHANGED <<rankVars, chunkVars, storeVars, extractVars>>

\* step 8: process_and_rank(extracted_points, chunks) of a PostProcessor
\* with top_k = FINAL_OUTPUT_COUNT
RunRank(p) ==
    /\ run[p].stage = "rank"
    /\ run' = [run EXCEPT ![p] =
                  [@ EXCEPT !.stage = Advance("rank", TRUE),
                            !.trace = Append(@, "rank"),
                            !.key_points = RankedList(run[p].llm_output[1].extracted_points,
                                                      run[p].chunks,
                                                      FinalOutputCount)]]
    /\ UNCHANGED <<pipelines, stores>>
    /\ UNCHANGED <<rankVars, chunkVars, storeVars, extractVars>>

\* the result dictionary is built and returned
RunResult(p) ==
    /\ run[p].stage = "result"
    /\ run' = [run EXCEPT ![p] =
                  [@ EXCEPT !.stage = Advance("result", TRUE),
                            !.trace = Append(@, "result"),
                            !.result = Some([document_id |-> run[p].doc_id,
                                             total_pages |-> run[p].total_pages,
                                             total_chunks |-> Len(run[p].chunks),
                                             key_points |-> run[p].key_points,
                                             metadata |-> run[p].metadata])]]
    /\ UNCHANGED <<pipelines, stores>>
    /\ UNCHANGED <<rankVars, chunkVars, storeVars, extractVars>>

\* the uploads of the runs: a path that is no file, an empty file, a file
\* pdfplumber cannot open, a PDF without text, and two PDFs with text
FileMissing == NoFile

FileEmpty == [exists |-> TRUE, content |-> "", readable |-> FALSE, pages |-> <<>>]

FileBroken == [exists |-> TRUE, content |-> "broken", readable |-> FALSE, pages |-> <<>>]

FileBlank == [exists |-> TRUE, content |-> "blank", readable |-> TRUE, pages |-> <<Str1(" ")>>]

FileA == [exists |-> TRUE, content |-> "A", readable |-> TRUE, pages |-> <<<<"a", " ", "b">>>>]

FileB ==
    [exists |-> TRUE, content |-> "B", readable |-> TRUE,
     pages |-> <<Str1("b"), <<>>, TextABC>>]

Files == {FileMissing, FileEmpty, FileBroken, FileBlank, FileA, FileB}

\* the model's answers in the runs: the call fails, prose, two records
PipelineInvokes ==
    {None, Some(<<SegProse>>),
     Some(<<SegJson(JObj([arguments |-> JArr(<<RecValid, RecValidB>>)]))>>)}

PipeIdle ==
    /\ pipelines = [p \in PipelineIds |-> None]
    /\ stores = [p \in PipelineIds |-> EmptyStore]
    /\ run = [p \in PipelineIds |-> IdleRun]

\* one pipeline that serves up to MaxRuns documents, one after the other
NextPipeline ==
    \/ \E has_chatgroq \in BOOLEAN, ctor_ok \in BOOLEAN : NewPipeline("p1", has_chatgroq, ctor_ok)
    \/ \E file \in Files : AnalyzeDocument("p1", file, MaxRuns)
    \/ RunHash("p1")
    \/ RunChunk("p1")
    \/ RunMetadata("p1")
    \/ \E faiss_ok \in BOOLEAN : RunInitialize("p1", faiss_ok)
    \/ \E embed_ok \in BOOLEAN : RunAddChunks("p1", embed_ok)
    \/ \E embed_ok \in BOOLEAN : RunRetrieve("p1", embed_ok)
    \/ \E invoke \in PipelineInvokes : RunExtract("p1", invoke)
    \/ RunRank("p1")
    \/ RunResult("p1")

\* the analyze route: every request constructs its pipeline and calls
\* analyze_document once; the requests run concurrently
NextRequests ==
    \E p \in PipelineIds :
        \/ NewPipeline(p, FALSE, TRUE)
        \/ \E file \in {FileA, FileB} : AnalyzeDocument(p, file, 1)
        \/ RunHash(p)
        \/ RunChunk(p)
        \/ RunMetadata(p)
        \/ RunInitialize(p, TRUE)
        \/ RunAddChunks(p, TRUE)
        \/ RunRetrieve(p, TRUE)
        \/ RunExtract(p, None)
        \/ RunRank(p)
        \/ RunResult(p)

\* ------------------------------------------------------------ specifications
vars == <<rankVars, chunkVars, storeVars, extractVars, pipeVars>>

RankIdle ==
    /\ top_k = 0
    /\ rank_chunks = <<>>
    /\ extracted_points = <<>>
    /\ final_points = <<>>
    /\ ranked = <<>>
    /\ orig_points = <<>>
    /\ pre_points = <<>>
    /\ first_ranked = <<>>
    /\ calls = 0

ChunkIdle ==
    /\ pages = <<>>
    /\ chunk_size = 1
    /\ chunk_overlap = 0
    /\ caller = "process_pdf"
    /\ pc = "done"
    /\ page_num = 1
    /\ doc_chunks = <<>>
    /\ text = <<>>
    /\ start = 0
    /\ chunk_index = 0
    /\ page_chunks = <<>>
    /\ windows = <<>>

NextRank == ProcessAndRank

\* the ranking stage on its own
InitRankStage == InitRank /\ ChunkIdle /\ InitStore /\ ExtractIdle /\ PipeIdle

SpecRank == InitRankStage /\ [][NextRank]_vars

\* the chunking stage on its own
InitChunkStage == InitChunk /\ RankIdle /\ InitStore /\ ExtractIdle /\ PipeIdle

SpecChunk == InitChunkStage /\ [][NextChunk]_vars

\* one VectorStore under any sequence of calls
InitStoreAlone == InitStore /\ RankIdle /\ ChunkIdle /\ ExtractIdle /\ PipeIdle

SpecStore == InitStoreAlone /\ [][NextStore]_vars

\* one LLMAnalyzer on its own
InitExtractAlone == ExtractIdle /\ RankIdle /\ ChunkIdle /\ InitStore /\ PipeIdle

SpecExtract == InitExtractAlone /\ [][NextExtract]_vars

\* the pipeline alone, serving documents one after the other
InitPipelineAlone == PipeIdle /\ RankIdle /\ ChunkIdle /\ InitStore /\ ExtractIdle

SpecPipeline == InitPipelineAlone /\ [][NextPipeline]_vars

\* concurrent requests, each with its own pipeline
SpecRequests == InitPipelineAlone /\ [][NextRequests]_vars

\* ------------------------------------------------- properties: PostProcessor

RatEq(x, y) == x.n * y.d = y.n * x.d

\* C1: a call with top_k >= 0 returns min(top_k, number of input points)
\* points and the i-th returned point carries final_rank i, so the ranks
\* are exactly 1..N in list order.
C1_RankContiguity ==
    (calls > 0 /\ top_k >= 0) =>
        /\ Len(ranked) = Min(top_k, Len(pre_points))
        /\ \A i \in 1..Len(ranked) : ranked[i].final_rank = i

C1_Witness ==
    /\ calls > 0
    /\ top_k = 1
    /\ Len(pre_points) = 2
    /\ Len(ranked) = 1
    /\ ranked[1].final_rank = 1

\* C2: the returned list is in descending combined_score order, equal scores
\* keep their input order, and no point that was cut beats a kept point
\* (by score, or by input position on a tie).
C2_StableDescending ==
    calls > 0 =>
        /\ \A i \in 1..Len(ranked), j \in 1..Len(ranked) :
              i < j =>
                 /\ ~RatLess(ranked[i].combined_score, ranked[j].combined_score)
                 /\ (RatEq(ranked[i].combined_score, ranked[j].combined_score)
                        => ranked[i].input_pos < ranked[j].input_pos)
        /\ \A q \in 1..Len(final_points), i \in 1..Len(ranked) :
              (\A j \in 1..Len(ranked) : ranked[j].input_pos # q) =>
                 /\ ~RatLess(ranked[i].combined_score, final_points[q].combined_score)
                 /\ ~(/\ RatEq(ranked[i].combined_score, final_points[q].combined_score)
                      /\ q < ranked[i].input_pos)

C2_Witness ==
    /\ calls > 0
    /\ Len(ranked) = 2
    /\ RatEq(ranked[1].combined_score, ranked[2].combined_score)
    /\ pre_points[1] # pre_points[2]
    /\ ranked[1].input_pos = 1

\* C3: combined_score = 0.5*importance_score + 0.3*retrieval_score +
\* 0.2*matchConfidence with the point's own importance_score and
\* retrieval_score whenever present (0 included), 0.5 only when missing.
C3_FusedScoreUsesOwnValues ==
    calls > 0 =>
        \A i \in 1..Len(final_points) :
            RatEq(final_points[i].combined_score,
                  CombinedScore(pre_points[i].importance_score,
                                IF pre_points[i].retrieval_score = None
                                   THEN Half ELSE pre_points[i].retrieval_score[1],
                                final_points[i].match_confidence))

\* first chunk of the list that matches the quote with confidence 1.0
FullMatches(quote, chunks) ==
    {k \in 1..Len(chunks) : TokenSetRatio(Lower(quote), Lower(chunks[k].text)) = One}

FirstFullMatch(quote, chunks) ==
    CHOOSE k \in FullMatches(quote, chunks) : \A m \in FullMatches(quote, chunks) : k <= m

\* point i names a page other than that of chunk k, whose text is its quote
QuotesChunkOnOtherPage(i, k) ==
    /\ pre_points[i].supporting_quote = Some(rank_chunks[k].text)
    /\ pre_points[i].page_start # None
    /\ pre_points[i].page_start[1] # rank_chunks[k].page_number

\* C4 as stated: whenever the quote is exactly the text of chunk C (the only
\* chunk with that text) and page_start names another page, page_start
\* becomes C's page and matchConfidence is 1.0.
C4_Original ==
    calls > 0 =>
        \A i \in 1..Len(pre_points), k \in 1..Len(rank_chunks) :
            (/\ QuotesChunkOnOtherPage(i, k)
             /\ \A m \in 1..Len(rank_chunks) : rank_chunks[m].text = rank_chunks[k].text => m = k) =>
                /\ extracted_points[i].page_start = Some(rank_chunks[k].page_number)
                /\ final_points[i].match_confidence = One

\* C4 amended: when the named page has no chunk of its own, matchConfidence
\* is 1.0 and page_start becomes the page of the first chunk in list order
\* that matches the quote with confidence 1.0 (C's page when no earlier
\* chunk matches as well); when the named page has chunks, only they are
\* candidates and page_start stays on the named page.
C4_Reconciliation ==
    calls > 0 =>
        \A i \in 1..Len(pre_points), k \in 1..Len(rank_chunks) :
            QuotesChunkOnOtherPage(i, k) =>
                IF OnPage(rank_chunks, pre_points[i].page_start[1]) = <<>>
                THEN /\ final_points[i].match_confidence = One
                     /\ final_points[i].page_start
                           = Some(rank_chunks[FirstFullMatch(rank_chunks[k].text, rank_chunks)].page_number)
                     /\ extracted_points[i].page_start = final_points[i].page_start
                     /\ (FirstFullMatch(rank_chunks[k].text, rank_chunks) = k
                            => extracted_points[i].page_start = Some(rank_chunks[k].page_number))
                ELSE /\ extracted_points[i].page_start = pre_points[i].page_start
                     /\ final_points[i].page_start = pre_points[i].page_start

C4_Witness ==
    /\ calls = 1
    /\ Len(pre_points) = 1
    /\ Len(rank_chunks) = 2
    /\ QuotesChunkOnOtherPage(1, 2)
    /\ rank_chunks[1].page_number = 1
    /\ rank_chunks[2].page_number = 2
    /\ pre_points[1].page_start = Some(3)
    /\ extracted_points[1].page_start = Some(2)
    /\ final_points[1].match_confidence = One

\* C5: every call on the same point objects and chunk list returns the
\* points in the order of the first call with the combined_score of the
\* first call, although the first call has overwritten page_start.
C5_RepeatedCallsAgree ==
    calls > 0 =>
        /\ Len(ranked) = Len(first_ranked)
        /\ \A i \in 1..Len(ranked) :
              /\ ranked[i].input_pos = first_ranked[i].input_pos
              /\ ranked[i].combined_score = first_ranked[i].combined_score
              /\ ranked[i].final_rank = first_ranked[i].final_rank

C5_Witness ==
    /\ calls = 2
    /\ Len(ranked) = 1
    /\ orig_points[1].page_start = None
    /\ pre_points[1].page_start = Some(2)
    /\ Len(OnPage(rank_chunks, 1)) = 1
    /\ RatLess(Zero, ranked[1].match_confidence)

\* -------------------------------------------------- properties: PDFProcessor
\* the while loop of _split_text_with_page has ended
SplitDone == pc = "split" /\ start >= Len(text)

\* the text of the j-th window of the current split
WindowText(j) == Slice(text, windows[j].start, windows[j].end)

\* C6: the chunks of a page carry chunk_index 0, 1, 2, ... in order; a
\* blank window makes no chunk and does not consume an index.
C6_ChunkIndexContiguous ==
    /\ \A k \in 1..Len(page_chunks) : page_chunks[k].chunk_index = k - 1
    /\ chunk_index = Len(page_chunks)
    /\ Len(page_chunks) = Cardinality({j \in 1..Len(windows) : ~IsBlank(WindowText(j))})
    /\ \A j \in 1..Len(windows) : IsBlank(WindowText(j)) <=> windows[j].chunk = 0
    /\ \A k \in 1..Len(doc_chunks) :
          doc_chunks[k].chunk_index
             = Cardinality({j \in 1..(k - 1) : doc_chunks[j].page_number = doc_chunks[k].page_number})

C6_Witness ==
    /\ SplitDone
    /\ chunk_overlap < chunk_size
    /\ Len(windows) = 3
    /\ windows[2].chunk = 0
    /\ Len(page_chunks) = 2
    /\ page_chunks[2].chunk_index = 1

\* number of leading whitespace characters of a window
Lead(win) == Len(win) - Len(LStrip(win))

\* the character at position i of the page text can be read back from the
\* chunk of a window that covers position i
RecoverableAt(i) ==
    \E j \in 1..Len(windows) :
        /\ windows[j].chunk > 0
        /\ windows[j].start < i
        /\ i <= windows[j].end
        /\ LET t == page_chunks[windows[j].chunk].text
               off == i - windows[j].start - Lead(WindowText(j))
           IN off \in 1..Len(t) /\ t[off] = text[i]

\* C7 as stated: every character of the page text, whitespace included, is
\* recoverable from the chunk texts.
C7_Original ==
    (SplitDone /\ chunk_overlap < chunk_size) =>
        \A i \in 1..Len(text) : RecoverableAt(i)

\* C7 amended: every non-whitespace character of the page text is
\* recoverable from the chunk of a window covering it; whitespace at the
\* edges of a window and all-whitespace windows are not kept.
C7_NonBlankRecoverable ==
    (SplitDone /\ chunk_overlap < chunk_size) =>
        \A i \in 1..Len(text) : ~IsSpace(text[i]) => RecoverableAt(i)

C7_Witness ==
    /\ SplitDone
    /\ chunk_overlap < chunk_size
    /\ chunk_overlap > 0
    /\ Len(page_chunks) >= 2
    /\ \E i \in 1..Len(text) : IsSpace(text[i]) /\ ~RecoverableAt(i)
    /\ \E i \in 1..Len(text) : text[i] = "b" /\ RecoverableAt(i)

\* C8: with overlap < chunkSize every window after the first starts
\* chunkSize - overlap after the previous one, and no window follows the
\* one that reaches the end of the text; a 3000-character page with
\* chunkSize 1500 and overlap 200 gives windows at 0, 1300, 2600, the last
\* chunk of length 400, and a 500-character page gives one chunk.
C8_WindowStarts ==
    chunk_overlap < chunk_size =>
        /\ windows # <<>> => windows[1].start = 0
        /\ \A j \in 2..Len(windows) :
              /\ windows[j].start = windows[j - 1].start + (chunk_size - chunk_overlap)
              /\ windows[j - 1].end < Len(text)
        /\ (SplitDone /\ windows # <<>>) => windows[Len(windows)].end >= Len(text)
        /\ (SplitDone /\ Len(text) = 3000 /\ chunk_size = 1500 /\ chunk_overlap = 200) =>
              /\ [j \in 1..Len(windows) |-> windows[j].start] = <<0, 1300, 2600>>
              /\ Len(page_chunks) = 3
              /\ Len(page_chunks[3].text) = 400
        /\ (SplitDone /\ Len(text) = 500 /\ chunk_size = 1500 /\ chunk_overlap = 200) =>
              Len(page_chunks) = 1

C8_Witness ==
    /\ SplitDone
    /\ Len(text) = 3000
    /\ chunk_size = 1500
    /\ chunk_overlap = 200
    /\ Len(windows) = 3
    /\ windows[3].start = 2600

\* C9 as stated: a blank page text yields no chunk, and a non-blank page
\* shorter than chunkSize yields exactly one chunk whose text is the whole
\* page text.
C9_Original ==
    /\ (pc = "split" /\ IsBlank(text)) => page_chunks = <<>>
    /\ (SplitDone /\ ~IsBlank(text) /\ Len(text) < chunk_size) =>
          /\ Len(page_chunks) = 1
          /\ page_chunks[1].text = text

\* C9 amended: ... exactly one chunk whose text is the whole page text with
\* its leading and trailing whitespace trimmed; process_pdf adds no chunk
\* for a blank page.
C9_EdgeCases ==
    /\ (pc = "split" /\ IsBlank(text)) => page_chunks = <<>>
    /\ (SplitDone /\ ~IsBlank(text) /\ Len(text) < chunk_size) =>
          /\ Len(page_chunks) = 1
          /\ page_chunks[1].text = Strip(text)
    /\ \A k \in 1..Len(doc_chunks) : ~IsBlank(pages[doc_chunks[k].page_number])

C9_Witness ==
    /\ SplitDone
    /\ ~IsBlank(text)
    /\ Len(text) < chunk_size
    /\ Strip(text) # text
    /\ Len(page_chunks) = 1
    /\ page_chunks[1].text = Strip(text)

\* --------------------------------------------------- properties: VectorStore
FreshStoreFor(d) == vs_index = Some(FreshIndex) /\ vs_chunks = <<>> /\ vs_doc_id = Some(d)

\* C10 as stated: every call of initialize_index that returns, whatever
\* force_new is, leaves a fresh empty index, an empty chunk list and doc_id
\* equal to the id passed in.
C10_Original ==
    (last_call.op = "initialize_index" /\ last_call.outcome # "raised") =>
        FreshStoreFor(last_call.doc_id)

\* C10 amended: a call with force_new = True, or made while no index exists,
\* that returns leaves a fresh empty index, an empty chunk list and the new
\* doc_id; a call with force_new = False (the default) while an index exists
\* returns early and keeps the prior index, its chunks and doc_id; a call
\* whose index construction raises changes nothing.
C10_InitializeIndex ==
    last_call.op = "initialize_index" =>
        /\ (last_call.before.index # None /\ ~last_call.force_new) =>
              /\ last_call.outcome = "kept"
              /\ StoreFields = last_call.before
        /\ (last_call.before.index = None \/ last_call.force_new) =>
              /\ last_call.outcome \in {"created", "raised"}
              /\ last_call.outcome = "created" => FreshStoreFor(last_call.doc_id)
              /\ last_call.outcome = "raised" => StoreFields = last_call.before

C10_Witness ==
    /\ last_call.op = "initialize_index"
    /\ last_call.force_new
    /\ last_call.before.index # None
    /\ Len(last_call.before.chunks) = 2
    /\ last_call.before.doc_id = Some("d1")
    /\ FreshStoreFor("d2")

\* C11: after any sequence of initialize_index, add_chunks and search calls
\* the index holds as many vectors as the chunk list holds chunks, vector i
\* is the embedding of the text of chunks[i], and an add_chunks call that
\* raises leaves the index and the chunk list as they were.
C11_IndexChunkAlignment ==
    /\ vs_index = None => vs_chunks = <<>>
    /\ vs_index # None =>
          /\ Len(vs_index[1].vectors) = Len(vs_chunks)
          /\ \A i \in 1..Len(vs_chunks) : vs_index[1].vectors[i] = Embed(vs_chunks[i].text)
    /\ (last_call.op = "add_chunks" /\ last_call.outcome = "raised") =>
          StoreFields = last_call.before

C11_Witness ==
    /\ last_call.op = "add_chunks"
    /\ last_call.outcome = "raised"
    /\ last_call.added = <<>>
    /\ vs_index # None
    /\ vs_index[1].ef_search # None
    /\ Len(vs_chunks) = 2
    /\ vs_chunks[1].text # vs_chunks[2].text

\* the last call was a search that met an index with chunks and returned
SearchReturned ==
    /\ last_call.op = "search"
    /\ last_call.outcome = "returned"
    /\ last_call.before.index # None
    /\ last_call.before.chunks # <<>>

\* the entries of the last report whose position lies inside the chunk list
ValidEntries ==
    {i \in 1..Len(last_call.report) :
        0 <= last_call.report[i].idx /\ last_call.report[i].idx < Len(last_call.before.chunks)}

\* the place in the result list of the pair made from report entry i
ResultPos(i) == Cardinality({j \in ValidEntries : j <= i})

\* C12 as stated: a search that returns gives exactly min(topK, number of
\* chunks) pairs whatever positions the engine reports, and the empty
\* list without an index or without chunks.
C12_Original ==
    (last_call.op = "search" /\ last_call.outcome = "returned") =>
        Len(last_call.results) = Min(last_call.top_k, Len(last_call.before.chunks))

\* C12 amended: a search without an index or without chunks returns the
\* empty list and raises nothing; otherwise a search that returns asked the
\* engine for min(topK, number of chunks) neighbours and gives one pair for
\* each reported position that lies inside the chunk list, in reported
\* order, skipping the others: at most min(topK, number of chunks) pairs,
\* and exactly that many when every reported position is valid.
C12_SearchLength ==
    last_call.op = "search" =>
        /\ (last_call.before.index = None \/ last_call.before.chunks = <<>>) =>
              /\ last_call.outcome = "returned"
              /\ last_call.results = <<>>
        /\ SearchReturned =>
              /\ Len(last_call.report) = Min(last_call.top_k, Len(last_call.before.chunks))
              /\ Len(last_call.results) = Cardinality(ValidEntries)
              /\ Len(last_call.results) <= Min(last_call.top_k, Len(last_call.before.chunks))
              /\ \A i \in ValidEntries :
                    last_call.results[ResultPos(i)].chunk
                       = last_call.before.chunks[last_call.report[i].idx + 1]

C12_Witness ==
    /\ SearchReturned
    /\ last_call.top_k = 2
    /\ Len(last_call.before.chunks) = 2
    /\ last_call.report[1].idx = 1
    /\ last_call.report[2].idx = 0 - 1
    /\ Len(last_call.results) = 1
    /\ last_call.results[1].chunk = vs_chunks[2]

\* C13: every score returned by search lies in [0,1]; distance 0 gives 1.0,
\* a NaN or infinite distance gives the score of the 1e6 sentinel (close to
\* 0), a negative distance gives the score of distance 0, and of two finite
\* non-negative distances the smaller never gets the smaller score.
C13_ScoreRange ==
    SearchReturned =>
        \A i \in ValidEntries :
            LET d == last_call.report[i].dist
                sc == last_call.results[ResultPos(i)].score
            IN /\ ~RatLess(sc, Zero)
               /\ ~RatLess(One, sc)
               /\ (d.kind = "num" /\ d.val = Zero) => sc = One
               /\ d.kind # "num" =>
                     /\ sc = Rat(1, 1 + SentinelDistance)
                     /\ RatLess(sc, Rat(1, 100000))
               /\ (d.kind = "num" /\ RatLess(d.val, Zero)) => sc = One
               /\ \A j \in ValidEntries :
                     LET e == last_call.report[j].dist
                     IN (/\ d.kind = "num" /\ e.kind = "num"
                         /\ ~RatLess(d.val, Zero)
                         /\ ~RatLess(e.val, d.val)) =>
                            ~RatLess(sc, last_call.results[ResultPos(j)].score)

C13_Witness ==
    /\ SearchReturned
    /\ Len(last_call.results) = 2
    /\ last_call.report[1].dist = Num(0 - 2, 1)
    /\ last_call.report[2].dist = NaN
    /\ last_call.results[1].score = One
    /\ last_call.results[2].score = Rat(1, 1000001)

\* --------------------------------------------------- properties: LLMAnalyzer
\* analyze_chunks was called with a client whose invoke returned a text
GotResponse == an_state = "called" /\ an_llm # None /\ an_call.invoke # None

\* the value parse_json_response recovered from the response text
ParsedResponse == ParseJsonResponse(an_call.invoke[1])

ReturnedPoints == an_call.result[1].output.extracted_points

\* a valid argument record: an object with a summary of at least five
\* characters and a numeric importance_score within [0,1]
ValidRecord(rec) ==
    /\ rec.t = "obj"
    /\ "summary" \in DOMAIN rec.obj
    /\ rec.obj.summary.t = "str"
    /\ "text" \in DOMAIN rec.obj.summary
    /\ Len(rec.obj.summary.text) >= 5
    /\ "importance_score" \in DOMAIN rec.obj
    /\ rec.obj.importance_score.t = "num"
    /\ ~RatLess(rec.obj.importance_score.num, Zero)
    /\ ~RatLess(One, rec.obj.importance_score.num)

\* stance and category of the record are absent or strings
PlainEnums(rec) ==
    /\ "stance" \in DOMAIN rec.obj => rec.obj.stance.t = "str"
    /\ "category" \in DOMAIN rec.obj => rec.obj.category.t = "str"

\* the argument records a parsed value contains
RecordsIn(v) ==
    IF v.t = "arr" THEN v.arr
    ELSE IF v.t # "obj" THEN <<>>
    ELSE IF "arguments" \in DOMAIN v.obj /\ v.obj.arguments.t = "arr" THEN v.obj.arguments.arr
    ELSE IF "extracted_points" \in DOMAIN v.obj /\ v.obj.extracted_points.t = "arr"
         THEN v.obj.extracted_points.arr
    ELSE <<>>

ValidPositions(recs) == {i \in 1..Len(recs) : ValidRecord(recs[i])}

\* the positions of the records the returned points were built from
ReturnedPositions == [j \in 1..Len(ReturnedPoints) |-> ReturnedPoints[j].src]

\* the members of a set of positions in increasing order
RECURSIVE Ascending(_)
Ascending(S) ==
    IF S = {} THEN <<>>
    ELSE LET m == CHOOSE x \in S : \A y \in S : x <= y
         IN <<m>> \o Ascending(S \ {m})

\* the response is a plain JSON object with the arguments key only
ArgumentsOnly ==
    /\ GotResponse
    /\ Len(an_call.invoke[1]) = 1
    /\ an_call.invoke[1][1].k = "json"
    /\ an_call.invoke[1][1].v.t = "obj"
    /\ DOMAIN an_call.invoke[1][1].v.obj = {"arguments"}
    /\ an_call.invoke[1][1].v.obj.arguments.t = "arr"

\* C15: whenever a parse strategy yields a value that contains valid
\* argument records (with ordinary stance and category), analyze_chunks
\* returns those records, whatever the confidence field and the top-level
\* shape of the value are.
C15_ParsedRecordsReturned ==
    (GotResponse /\ ParsedResponse # None) =>
        \A i \in ValidPositions(RecordsIn(ParsedResponse[1])) :
            PlainEnums(RecordsIn(ParsedResponse[1])[i]) =>
                \E j \in 1..Len(ReturnedPoints) : ReturnedPoints[j].src = i

\* an invalid record in the widest sense of C16: no object, no summary text
\* of five characters under summary (or, without that key, argument), or
\* an importance_score that is present and is no number within [0,1] (a
\* string that spells one counts as a number)
InvalidRecord(rec) ==
    \/ rec.t # "obj"
    \/ SummaryOf(rec).t # "str"
    \/ Len(SummaryOf(rec).text) < 5
    \/ FloatOf(JGet(rec, "importance_score", JNum(1, 2))) = None
    \/ RatLess(FloatOf(JGet(rec, "importance_score", JNum(1, 2)))[1], Zero)
    \/ RatLess(One, FloatOf(JGet(rec, "importance_score", JNum(1, 2)))[1])

\* C16: of the parsed argument list exactly the invalid records are
\* dropped and all other records are returned in their original order.
C16_DropsExactlyInvalid ==
    ArgumentsOnly =>
        ReturnedPositions
           = Ascending({i \in 1..Len(RecordsIn(ParsedResponse[1])) :
                           ~InvalidRecord(RecordsIn(ParsedResponse[1])[i])})

\* the stance and category the claim gives a record: the known member the
\* value spells, else unknown and other
ExpectedStance(rec) ==
    IF "stance" \in DOMAIN rec.obj /\ rec.obj.stance.t = "str"
          /\ LowerWord(rec.obj.stance.str) \in Stances
    THEN LowerWord(rec.obj.stance.str) ELSE "unknown"

ExpectedCategory(rec) ==
    IF "category" \in DOMAIN rec.obj /\ rec.obj.category.t = "str"
          /\ LowerWord(rec.obj.category.str) \in ArgumentCategories
    THEN LowerWord(rec.obj.category.str) ELSE "other"

\* C17: every otherwise valid record is kept whatever its stance and
\* category hold (unrecognised or differently-cased strings, null, values
\* that are no strings), with a stance outside the known set replaced by
\* unknown and a category outside the known set replaced by other.
C17_EnumFallback ==
    ArgumentsOnly =>
        \A i \in ValidPositions(RecordsIn(ParsedResponse[1])) :
            \E j \in 1..Len(ReturnedPoints) :
                /\ ReturnedPoints[j].src = i
                /\ ReturnedPoints[j].stance = ExpectedStance(RecordsIn(ParsedResponse[1])[i])
                /\ ReturnedPoints[j].category = ExpectedCategory(RecordsIn(ParsedResponse[1])[i])

\* ------------------------------------------------------------------ C14
\* the analyzer of pipeline p1 has no client, or the invoke call of its
\* current run raised
BackendUnavailable ==
    /\ pipelines["p1"] # None
    /\ run["p1"].invoke # None
    /\ pipelines["p1"][1].llm = None \/ run["p1"].invoke = Some(None)

\* the pages of the uploaded file that have text
TextPages(file) == {i \in 1..Len(file.pages) : ~IsBlank(file.pages[i])}

\* C14: when the extraction collaborator is unavailable (no client library,
\* client construction failed, or invoke raises), analyze_chunks returns no
\* point with confidence 0 and raises nothing, and the run, which is on a
\* valid document, does not fail: it returns key_points = [] with the
\* document's id, page count and chunk count
C14_FallbackCompletes ==
    BackendUnavailable =>
        /\ run["p1"].llm_output = Some([extracted_points |-> <<>>, confidence |-> Zero])
        /\ run["p1"].stage \in {"rank", "result", "returned"}
        /\ run["p1"].stage = "returned" =>
              /\ run["p1"].result # None
              /\ run["p1"].result[1].key_points = <<>>
              /\ run["p1"].result[1].document_id = ContentHash(run["p1"].file.content)
              /\ run["p1"].result[1].total_pages = Len(run["p1"].file.pages)
              /\ run["p1"].result[1].total_chunks = Cardinality(TextPages(run["p1"].file))

\* a run on the three-page document returned after the invoke call of a
\* constructed client raised
C14_Witness ==
    /\ BackendUnavailable
    /\ pipelines["p1"][1].llm # None
    /\ run["p1"].file = FileB
    /\ run["p1"].stage = "returned"
    /\ run["p1"].result[1].total_chunks = 2

\* a run returned with no client at all
C14_WitnessNoClient ==
    /\ BackendUnavailable
    /\ pipelines["p1"][1].llm = None
    /\ run["p1"].stage = "returned"

\* ------------------------------------------------------------------ C18
\* the stages of a run that the property names, in order
RunStages == <<"hash", "chunk", "initialize", "add", "retrieve", "extract", "rank", "result">>

\* the named stages the current run of p1 has executed, in execution order
Executed == SelectSeq(run["p1"].trace, LAMBDA s : s # "metadata")

\* final_rank is 1, 2, ... and no point scores higher than one before it
RankContiguous(key_points) ==
    /\ \A i \in 1..Len(key_points) : key_points[i].final_rank = i
    /\ \A i \in 1..Len(key_points), j \in 1..Len(key_points) :
          i < j => ~RatLess(key_points[i].combined_score, key_points[j].combined_score)

HasExecuted(stage) == \E i \in 1..Len(run["p1"].trace) : run["p1"].trace[i] = stage

\* the stage fails fatally on the state the run is in: the file is missing
\* or empty, there is no chunk
FatalInput ==
    \/ /\ HasExecuted("hash")
       /\ ~run["p1"].file.exists \/ run["p1"].file.content = ""
    \/ /\ HasExecuted("chunk")
       /\ ~run["p1"].file.readable \/ TextPages(run["p1"].file) = {}

\* C18: a run executes hash, chunk, index initialize, add chunks, retrieve,
\* extract, rank, result in exactly that order, none repeated or skipped;
\* after a fatal failure of a stage no later stage executes and the run
\* raises and returns no result; every returned result has a fully ranked,
\* rank-contiguous key_points list
C18_LinearStages ==
    /\ Len(Executed) <= Len(RunStages)
    /\ Executed = SubSeq(RunStages, 1, Len(Executed))
    /\ FatalInput => run["p1"].error # None
    /\ run["p1"].error # None =>
          /\ run["p1"].stage = "raised"
          /\ run["p1"].result = None
          /\ Executed[Len(Executed)] = run["p1"].error[1]
    /\ run["p1"].stage = "raised" => run["p1"].error # None
    /\ run["p1"].result # None =>
          /\ run["p1"].stage = "returned"
          /\ Executed = RunStages
          /\ RankContiguous(run["p1"].result[1].key_points)
          /\ Len(run["p1"].result[1].key_points)
                = Min(Len(run["p1"].llm_output[1].extracted_points), FinalOutputCount)
    /\ run["p1"].stage = "returned" => run["p1"].result # None

\* a run returned two ranked points
C18_Witness ==
    /\ run["p1"].stage = "returned"
    /\ Len(run["p1"].result[1].key_points) = 2
    /\ run["p1"].result[1].key_points[2].final_rank = 2

\* a run ended by an embedding failure in add_chunks
C18_WitnessRaised ==
    /\ run["p1"].stage = "raised"
    /\ run["p1"].error = Some("add")
    /\ run["p1"].trace = <<"hash", "chunk", "metadata", "initialize", "add">>

\* ------------------------------------------------------------------ C20
\* the current run of p1 is at the retrieve stage or past it
ReachedRetrieve == run["p1"].stage \in {"retrieve", "extract", "rank", "result", "returned"}

\* C20: after any sequence of runs on one pipeline, whenever a run reaches
\* the retrieve stage the store's doc_id is that run's document id and
\* its chunk list is exactly that run's chunk list, so every retrieved
\* chunk is one of this run's and the counts are this run's
C20_StoreHoldsCurrentRun ==
    ReachedRetrieve =>
        /\ stores["p1"].doc_id = Some(run["p1"].doc_id)
        /\ stores["p1"].chunks = run["p1"].chunks
        /\ Len(stores["p1"].index[1].vectors) = Len(run["p1"].chunks)
        /\ \A i \in 1..Len(run["p1"].retrieved) :
              run["p1"].retrieved[i].chunk.document_id = run["p1"].doc_id
        /\ Len(run["p1"].retrieved) <= Len(run["p1"].chunks)

\* the second run of the pipeline has retrieved from its own document
\* after a first run on another document went as far as the store
C20_Witness ==
    /\ pipelines["p1"] # None
    /\ Len(pipelines["p1"][1].history) = 1
    /\ pipelines["p1"][1].history[1].doc_id = ContentHash("B")
    /\ run["p1"].doc_id = ContentHash("A")
    /\ run["p1"].stage = "extract"
    /\ Len(run["p1"].retrieved) = 1

\* ------------------------------------------------------------------ C19
\* the run of pipeline p has added its chunks and not failed since
HoldsChunks(p) == run[p].stage \in {"retrieve", "extract", "rank", "result", "returned"}

\* the store that the run of p works on holds the chunks and vectors of
\* that run and no other, and what the run retrieved are its own chunks
OwnStoreOnly(p) ==
    HoldsChunks(p) =>
        /\ stores[p].doc_id = Some(run[p].doc_id)
        /\ stores[p].chunks = run[p].chunks
        /\ stores[p].index[1].vectors = [i \in 1..Len(run[p].chunks) |-> Embed(run[p].chunks[i].text)]
        /\ \A i \in 1..Len(run[p].retrieved) :
              \E j \in 1..Len(run[p].chunks) : run[p].retrieved[i].chunk = run[p].chunks[j]

\* a step that is not a step of pipeline p leaves the store of p alone
OthersKeepStore(p) ==
    (run'[p] = run[p] /\ pipelines'[p] = pipelines[p]) => stores'[p] = stores[p]

\* C19: when analyze requests run concurrently, each run uses its own
\* VectorStore index and chunk list: in no interleaving does the
\* initialize_index, add_chunks or search of one run read or discard
\* vectors or chunks of another run
C19_RequestIsolation ==
    /\ [](\A p \in PipelineIds : OwnStoreOnly(p))
    /\ [][\A p \in PipelineIds : OthersKeepStore(p)]_vars

\* two requests on different documents are in flight, both with their
\* chunks in a store, one of them having retrieved already
C19_Witness ==
    /\ run["p1"].stage = "extract"
    /\ run["p2"].stage = "retrieve"
    /\ run["p1"].file = FileA
    /\ run["p2"].file = FileB
    /\ Len(run["p1"].retrieved) = 1
    /\ Len(stores["p2"].chunks) = 2

\* ------------------------------------------------------------------ C21
\* the step is one iteration of the while loop of the splitter
LoopIteration == pc = "split" /\ Len(windows') = Len(windows) + 1

\* C21: for every chunk size and overlap that the configuration accepts
\* (size 500..3000, overlap 0..500) and every page text, the window start
\* strictly increases on every iteration of the chunking loop, so the loop
\* reaches the end of the text and terminates
C21_StartIncreases ==
    [][(SettingsAccepts(chunk_size, chunk_overlap) /\ LoopIteration) => start' > start]_vars

====
